---- MODULE Spec2Model ----
(***************************************************************************)
(* Model of uber/assume-role-cli: the App.AssumeRole state machine         *)
(* (app.go), the file-backed AWSConfig store (aws.go) and the helpers      *)
(* they use.  One process invocation is: load both ini files, run          *)
(* AssumeRole once, exit.  Invocations follow each other on the same two   *)
(* backing files while the clock advances.                                 *)
(***************************************************************************)
EXTENDS Integers, Sequences, FiniteSets, TLC

(***************************************************************************)
(* Bounds of the model                                                     *)
(***************************************************************************)
MaxInvocations == 2
MaxInputLines == 3
MaxDevices == 2
MaxStoreCalls == 3
MaxArgs == 4
TicksPerSecond == 2

(***************************************************************************)
(* Time.  An instant is a number of ticks; the zero time.Time is 0.        *)
(***************************************************************************)
ZeroTime == 0
Minute == 60 * TicksPerSecond
Hour == 60 * Minute
StartTime == 1000 * Hour
\* config.go: RefreshBeforeExpiry defaults to 15 minutes
DefaultRefreshMinutes == 15
DefaultRefreshBeforeExpiry == DefaultRefreshMinutes * Minute
\* aws.go AssumeRoleWithMFA: DurationSeconds is time.Hour
CredentialsLifetime == Hour

(***************************************************************************)
(* Strings.  A role ARN or role token is a sequence of atoms; an atom that *)
(* ends one ":"-separated section is in ColonAtoms.                        *)
(***************************************************************************)
ColonAtoms == {"arn:", "aws:", "iam:", ":", "123:", "456:"}
RoleArnPrefix == <<"arn:", "aws:", "iam:", ":", "123:", "role/">>
FullRoleA == RoleArnPrefix \o <<"testRole">>
UserRoles == {FullRoleA, <<"testRole">>}
SessionNames == {"", "alice"}
UserName == "bob"
\* serial number of the i-th MFA device of the user
DeviceName(i) ==
    CASE i = 1 -> "mfa/foo" [] i = 2 -> "mfa/bar" [] i = 3 -> "mfa/baz"
      [] OTHER -> "mfa/other"

\* text of one section of an ARN, its trailing ":" removed
StripColon(atom) ==
    CASE atom = "123:" -> "123"
      [] atom = "456:" -> "456"
      [] atom = "arn:" -> "arn"
      [] atom = "aws:" -> "aws"
      [] atom = "iam:" -> "iam"
      [] OTHER -> ""

ColonPositions(s) == {i \in 1..Len(s) : s[i] \in ColonAtoms}

\* position of the n-th ":" of s (0 when there are fewer)
NthColon(s, n) ==
    IF Cardinality(ColonPositions(s)) < n THEN 0
    ELSE CHOOSE i \in ColonPositions(s) :
            Cardinality({j \in ColonPositions(s) : j <= i}) = n

\* arn.Parse succeeds: prefix "arn:" and six ":"-separated sections
isValidARN(str) ==
    /\ Len(str) > 0
    /\ str[1] = "arn:"
    /\ Cardinality(ColonPositions(str)) >= 5

ArnAccountID(str) == StripColon(str[NthColon(str, 5)])
ArnResource(str) == SubSeq(str, NthColon(str, 5) + 1, Len(str))

\* filepath.Base
PathBase(path) ==
    IF Len(path) = 0 THEN "."
    ELSE IF path[Len(path)] = "role/" THEN "role"
    ELSE path[Len(path)]


(***************************************************************************)
(* Text typed on stdin.  A line is a sequence of one-character strings.    *)
(***************************************************************************)
Digits == {"0", "1", "2", "3", "4", "5", "6", "7", "8", "9"}
Spaces == {" "}
InputLines == { <<"1">>, <<" ", "2", " ">>, <<"-", "1">>, <<"a">> }
\* a line of twenty digits: a number no int holds
LongNumber == [i \in 1..20 |-> "6"]
SelectionLines == InputLines \cup {LongNumber, <<"3">>}

DigitValue(c) ==
    CASE c = "0" -> 0 [] c = "1" -> 1 [] c = "2" -> 2 [] c = "3" -> 3
      [] c = "4" -> 4 [] c = "5" -> 5 [] c = "6" -> 6 [] c = "7" -> 7
      [] c = "8" -> 8 [] c = "9" -> 9 [] OTHER -> 0

RECURSIVE TrimLeft(_)
TrimLeft(s) ==
    IF Len(s) > 0 /\ s[1] \in Spaces THEN TrimLeft(Tail(s)) ELSE s

RECURSIVE TrimRight(_)
TrimRight(s) ==
    IF Len(s) > 0 /\ s[Len(s)] \in Spaces
    THEN TrimRight(SubSeq(s, 1, Len(s) - 1)) ELSE s

\* strings.TrimSpace
TrimSpace(s) == TrimRight(TrimLeft(s))

RECURSIVE DecimalValue(_)
DecimalValue(s) ==
    IF Len(s) = 0 THEN 0
    ELSE 10 * DecimalValue(SubSeq(s, 1, Len(s) - 1)) + DigitValue(s[Len(s)])

AllDigits(s) == Len(s) > 0 /\ \A i \in 1..Len(s) : s[i] \in Digits

RECURSIVE StripZeros(_)
StripZeros(s) ==
    IF Len(s) > 1 /\ s[1] = "0" THEN StripZeros(Tail(s)) ELSE s

\* a <= b for two digit strings of the same length
RECURSIVE DigitsLeq(_, _)
DigitsLeq(a, b) ==
    IF Len(a) = 0 THEN TRUE
    ELSE IF DigitValue(a[1]) # DigitValue(b[1])
         THEN DigitValue(a[1]) < DigitValue(b[1])
         ELSE DigitsLeq(Tail(a), Tail(b))

\* the digits of the largest int, 1<<63 - 1, and of the smallest, -1<<63
MaxIntDigits ==
    <<"9", "2", "2", "3", "3", "7", "2", "0", "3", "6", "8", "5", "4", "7",
      "7", "5", "8", "0", "7">>
MinIntDigits ==
    <<"9", "2", "2", "3", "3", "7", "2", "0", "3", "6", "8", "5", "4", "7",
      "7", "5", "8", "0", "8">>

\* the number written fits an int
FitsInt(digits, negative) ==
    LET d == StripZeros(digits)
        limit == IF negative THEN MinIntDigits ELSE MaxIntDigits
    IN  \/ Len(d) < Len(limit)
        \/ Len(d) = Len(limit) /\ DigitsLeq(d, limit)

\* a decimal numeral: an optional sign followed by at least one digit
Numeral(s) ==
    IF Len(s) > 0 /\ s[1] \in {"+", "-"} THEN AllDigits(Tail(s)) ELSE AllDigits(s)

\* strconv.Atoi: an optional sign followed by at least one digit, and a
\* value that fits an int; anything else is an error
AtoiOk(s) ==
    /\ Numeral(s)
    /\ IF s[1] \in {"+", "-"} THEN FitsInt(Tail(s), s[1] = "-")
       ELSE FitsInt(s, FALSE)

Atoi(s) ==
    IF Len(s) > 0 /\ s[1] = "-" THEN 0 - DecimalValue(Tail(s))
    ELSE IF Len(s) > 0 /\ s[1] = "+" THEN DecimalValue(Tail(s))
    ELSE DecimalValue(s)

\* the lines a user types as an MFA token: the numeric ones
TokenLines == {l \in InputLines : AllDigits(TrimSpace(l))}

\* utils.go readInput: the line read, trimmed (the error is the caller's case)
readInput(line) == TrimSpace(line)

(***************************************************************************)
(* Errors.  text is the message as a sequence of pieces; a multierror      *)
(* carries its causes in order.                                            *)
(***************************************************************************)
NoErr == [kind |-> "nil", text |-> <<>>, causes |-> <<>>]
AwsErr(code) == [kind |-> "aws", text |-> <<code>>, causes |-> <<>>]
PlainErr(msg) == [kind |-> "plain", text |-> <<msg>>, causes |-> <<>>]
\* fmt.Errorf(prefix + "%v", err)
Errorf(prefix, err) ==
    [kind |-> "plain", text |-> <<prefix>> \o err.text, causes |-> <<>>]
\* fmt.Errorf(prefix + "%v" + suffix, err)
ErrorfSuffix(prefix, err, suffix) ==
    [kind |-> "plain", text |-> (<<prefix>> \o err.text) \o <<suffix>>,
     causes |-> <<>>]
\* multierror.Append(acc, err)
MultiAppend(acc, err) ==
    [kind |-> "multi", text |-> <<>>,
     causes |-> IF acc.kind = "nil" THEN <<err>> ELSE Append(acc.causes, err)]

AccessDenied == AwsErr("AccessDenied")
OtherAwsErr == AwsErr("Throttling")
IoEOF == PlainErr("EOF")
StoreIOError == PlainErr("store I/O error")

\* aws.go IsAWSAccessDeniedError
IsAWSAccessDeniedError(err) == err.kind = "aws" /\ err.text = <<"AccessDenied">>

errAssumedRoleNeedsSessionName ==
    PlainErr("Validation error: missing role session name when current IAM principal is an assumed role")

WithoutMFAPhrase == "error trying to AssumeRole without MFA: "
WithMFAPhrase == "error trying to AssumeRole with MFA: "

(***************************************************************************)
(* Configuration (config.go)                                               *)
(***************************************************************************)
MakeConfig(refresh, rolePrefix, namePrefix) ==
    [RefreshBeforeExpiry |-> refresh, RolePrefix |-> rolePrefix,
     ProfileNamePrefix |-> namePrefix]
\* no configuration file, and one that sets all three options
Configs ==
    { MakeConfig(0, <<>>, ""),
      MakeConfig(5 * Minute, RoleArnPrefix, "foobar") }

\* Config.setDefaults
setDefaults(c) ==
    [c EXCEPT !.RefreshBeforeExpiry =
        IF c.RefreshBeforeExpiry = 0 THEN DefaultRefreshBeforeExpiry
        ELSE c.RefreshBeforeExpiry]

(***************************************************************************)
(* Role resolution (app.go roleARN, profileName)                           *)
(***************************************************************************)
\* App.roleARN: ok, and the ARN it returns
roleARNOk(cfg, userRole) ==
    isValidARN(userRole) \/ isValidARN(cfg.RolePrefix \o userRole)

roleARN(cfg, userRole) ==
    IF isValidARN(userRole) THEN userRole ELSE cfg.RolePrefix \o userRole

\* profileName without the ProfileNamePrefix option: always the account id
profileName_alwaysAccount(cfg, userRole) ==
    LET parsed == roleARN(cfg, userRole)
    IN  <<ArnAccountID(parsed), "-", PathBase(ArnResource(parsed))>>

\* App.profileName: the key the profile is stored under
profileName(cfg, userRole) ==
    LET parsed == roleARN(cfg, userRole)
        prefix == IF cfg.ProfileNamePrefix # "" THEN cfg.ProfileNamePrefix
                  ELSE ArnAccountID(parsed)
    IN  <<prefix, "-", PathBase(ArnResource(parsed))>>

\* the ARN AssumeRole hands to the provider and stores in the profile
requestRoleARN(cfg, userRole) == cfg.RolePrefix \o userRole

ProfileKeys ==
    {profileName(c, r) : <<c, r>> \in
        {cr \in Configs \X UserRoles : roleARNOk(cr[1], cr[2])}}

(***************************************************************************)
(* The store (aws.go AWSConfig): two ini files, each a set of sections.    *)
(* An ini value that holds a timestamp is <<seconds>>, the empty value <<>>*)
(***************************************************************************)
EmptyProfileSection ==
    [present |-> FALSE, expiration |-> <<>>, mfa_serial |-> "",
     source_profile |-> "", role_arn |-> <<>>, role_session_name |-> ""]
EmptyCredentialsSection ==
    [present |-> FALSE, aws_access_key_id |-> <<>>,
     aws_secret_access_key |-> <<>>, aws_session_token |-> <<>>]
EmptyIni ==
    [config |-> [k \in ProfileKeys |-> EmptyProfileSection],
     credentials |-> [k \in ProfileKeys |-> EmptyCredentialsSection]]

\* time.Time.Format(time.RFC3339): whole seconds, the fraction is dropped
FormatRFC3339(t) == <<t \div TicksPerSecond>>
\* ini Key.TimeFormat(time.RFC3339)
ParseRFC3339Ok(v) == Len(v) = 1
ParseRFC3339(v) == v[1] * TicksPerSecond

\* ini File.Section(name): the section, created empty when it is missing
profileIniSection(ini, key) ==
    [ini EXCEPT !.config[key].present = TRUE]
credentialsIniSection(ini, key) ==
    [ini EXCEPT !.credentials[key].present = TRUE]

ZeroProfile ==
    [Expires |-> ZeroTime, MFASerial |-> "", SourceProfile |-> "",
     RoleARN |-> <<>>, RoleSessionName |-> ""]

\* AWSConfig.GetProfile: the value returned
GetProfile(ini, key) ==
    LET section == ini.config[key]
    IN  [Expires |-> IF ParseRFC3339Ok(section.expiration)
                     THEN ParseRFC3339(section.expiration) ELSE ZeroTime,
         MFASerial |-> section.mfa_serial,
         SourceProfile |-> section.source_profile,
         RoleARN |-> section.role_arn,
         RoleSessionName |-> section.role_session_name]

\* AWSConfig.SetProfile: the in-memory config ini before SaveTo
SetProfile(ini, key, profile) ==
    [ini EXCEPT !.config[key] =
        [present |-> TRUE,
         expiration |-> FormatRFC3339(profile.Expires),
         mfa_serial |-> profile.MFASerial,
         source_profile |-> profile.SourceProfile,
         role_arn |-> profile.RoleARN,
         role_session_name |-> profile.RoleSessionName]]

\* AWSConfig.GetCredentials: the value returned
GetCredentials(ini, key) ==
    LET section == ini.credentials[key]
    IN  [AccessKeyID |-> section.aws_access_key_id,
         SecretAccessKey |-> section.aws_secret_access_key,
         SessionToken |-> section.aws_session_token,
         Expires |-> GetProfile(ini, key).Expires]

\* AWSConfig.SetCredentials: both in-memory inis before the two SaveTo calls
SetCredentials(ini, key, creds) ==
    [ini EXCEPT
        !.credentials[key] =
            [present |-> TRUE,
             aws_access_key_id |-> creds.AccessKeyID,
             aws_secret_access_key |-> creds.SecretAccessKey,
             aws_session_token |-> creds.SessionToken],
        !.config[key].present = TRUE,
        !.config[key].expiration = FormatRFC3339(creds.Expires)]

\* SaveTo that leaves the sections the file already has as they are
SaveTo_keepingSections(files, name, ini) ==
    [files EXCEPT ![name] =
        [k \in DOMAIN files[name] |->
            IF files[name][k].present THEN files[name][k] ELSE ini[name][k]]]

\* ini File.SaveTo: the file named is rewritten whole from the ini in memory
SaveTo(files, name, ini) == [files EXCEPT ![name] = ini[name]]

\* a load that does not read the files: the process starts from empty inis
LooseLoad_ignoringFiles(files) == EmptyIni

\* NewAWSConfig: ini.LooseLoad of the config file and of the credentials
\* file, a missing file loading as an empty ini
LooseLoad(files) ==
    [config |-> files.config, credentials |-> files.credentials]

\* credentials as the provider issues them: the n-th set, expiring at t
NewCredentials(n, t) ==
    [AccessKeyID |-> <<"AKID", n>>, SecretAccessKey |-> <<"SECRET", n>>,
     SessionToken |-> <<"TOKEN", n>>, Expires |-> t]

(***************************************************************************)
(* App (app.go)                                                            *)
(***************************************************************************)
\* credentialsExpired without the refresh horizon: only credentials past
\* their expiry count as expired
credentialsExpired_ignoringHorizon(cfg, clockNow, expiryTime) ==
    clockNow > expiryTime

\* credentialsExpired that takes the zero time for "no expiry"
credentialsExpired_zeroNeverExpires(cfg, clockNow, expiryTime) ==
    /\ expiryTime # ZeroTime
    /\ clockNow > expiryTime - cfg.RefreshBeforeExpiry

\* App.credentialsExpired
credentialsExpired(cfg, clockNow, expiryTime) ==
    clockNow > expiryTime - cfg.RefreshBeforeExpiry

\* chooseSessionName without "sessionName := profile.RoleSessionName": the
\* name stored in the profile is not looked at
chooseSessionName_ignoringStored(profile, options) ==
    options.RoleSessionName

\* the session name AssumeRole uses once a refresh is needed; "" when the
\* current username has to be looked up
chooseSessionName(profile, options) ==
    IF profile.RoleSessionName # "" THEN profile.RoleSessionName
    ELSE options.RoleSessionName

(***************************************************************************)
(* State                                                                   *)
(***************************************************************************)
VARIABLES
    config,     \* App.config after setDefaults
    now,        \* what Clock.Now() returns
    disk,       \* the two backing files
    mem,        \* AWSConfig.awsConfigIni / awsCredentialsIni of the process
    pc,         \* where AssumeRole stands
    options,    \* the AssumeRoleParameters of the running invocation
    loc,        \* the local variables of AssumeRole
    result,     \* what AssumeRole returned: (credentials or nil, error)
    log,        \* the provider and store calls of the invocation, in order
    stderr,     \* what the invocation wrote to app.stderr
    linesRead,  \* lines read from app.stdinReader, all invocations together
    nInv,       \* invocations started so far
    issued,     \* credentials the provider issued so far
    typed,      \* the lines the invocation read from app.stdinReader, as typed
    atStart     \* the backing files and the cached profile at invocation start

vars == <<config, now, disk, mem, pc, options, loc, result, log, stderr,
          linesRead, nInv, issued, typed, atStart>>

InitLoc ==
    [profileName |-> <<>>, profile |-> ZeroProfile,
     currentPrincipalIsAssumedRole |-> FALSE, roleARN |-> <<>>,
     sessionName |-> "", finalErr |-> NoErr, creds |-> <<>>,
     mfaDeviceARN |-> "", devices |-> <<>>, mfaToken |-> <<>>]

NoResult == [creds |-> <<>>, err |-> NoErr]

Call(op) ==
    [op |-> op, role |-> <<>>, session |-> "", device |-> "", token |-> <<>>,
     devices |-> <<>>, key |-> <<>>, out |-> ""]

Written(text) == [text |-> text, index |-> 0, device |-> ""]
DeviceLine(i, d) == [text |-> "[%d]: %s\n", index |-> i, device |-> d]

\* what MFADevices can return: the serials of up to MaxDevices devices
DeviceLists == {[i \in 1..n |-> DeviceName(i)] : n \in 0..MaxDevices}

\* how far the clock moves before an invocation: not at all, or up to the
\* refresh horizon of credentials issued for an hour, or one tick into it
Advances(cfg, n) ==
    IF n = 0 THEN {0}
    ELSE {0, CredentialsLifetime - cfg.RefreshBeforeExpiry,
          CredentialsLifetime - cfg.RefreshBeforeExpiry + 1}

\* the role token of an invocation: the operator runs the command for one
\* role, and runs it again for the same role
RolesAsked(opts, n) == IF n = 0 THEN UserRoles ELSE {opts.UserRole}

Init ==
    /\ config \in {setDefaults(c) : c \in Configs}
    /\ now = StartTime
    /\ disk = EmptyIni
    /\ mem = EmptyIni
    /\ pc = "idle"
    /\ options = [UserRole |-> <<>>, RoleSessionName |-> ""]
    /\ loc = InitLoc
    /\ result = NoResult
    /\ log = <<>>
    /\ stderr = <<>>
    /\ linesRead = 0
    /\ nInv = 0
    /\ issued = 0
    /\ typed = <<>>
    /\ atStart = [disk |-> EmptyIni, profile |-> ZeroProfile]

\* AssumeRole returns (creds, err)
Return(creds, err) ==
    /\ result' = [creds |-> creds, err |-> err]
    /\ pc' = "done"

(***************************************************************************)
(* cli.Main / NewApp / AssumeRole, lines "profileName, err := ..."         *)
(* A new process: NewAWSConfig loads both files, then AssumeRole starts.   *)
(***************************************************************************)
Start ==
    /\ pc \in {"idle", "done"}
    /\ nInv < MaxInvocations
    /\ \E userRole \in RolesAsked(options, nInv), name \in SessionNames,
          advance \in Advances(config, nInv) :
        /\ now' = now + advance
        /\ options' = [UserRole |-> userRole, RoleSessionName |-> name]
        /\ IF roleARNOk(config, userRole)
           THEN /\ loc' = [InitLoc EXCEPT
                              !.profileName = profileName(config, userRole)]
                /\ atStart' = [disk |-> disk,
                               profile |-> GetProfile(disk,
                                              profileName(config, userRole))]
                /\ result' = NoResult
                /\ pc' = "getProfile"
           ELSE /\ loc' = InitLoc
                /\ atStart' = [disk |-> disk, profile |-> ZeroProfile]
                /\ Return(<<>>, [kind |-> "plain",
                                 text |-> <<"invalid role ARN: ">>
                                            \o (config.RolePrefix \o userRole),
                                 causes |-> <<>>])
    /\ mem' = LooseLoad(disk)
    /\ log' = <<>>
    /\ stderr' = <<>>
    /\ typed' = <<>>
    /\ nInv' = nInv + 1
    /\ UNCHANGED <<config, disk, issued, linesRead>>

\* profile, err := app.awsConfig.GetProfile(profileName)
GetProfileStep ==
    /\ pc = "getProfile"
    /\ \E ok \in BOOLEAN :
        /\ log' = Append(log, [Call("GetProfile") EXCEPT
                                  !.key = loc.profileName,
                                  !.out = IF ok THEN "ok" ELSE "error"])
        /\ IF ok
           THEN /\ loc' = [loc EXCEPT
                              !.profile = GetProfile(mem, loc.profileName)]
                /\ mem' = profileIniSection(mem, loc.profileName)
                /\ pc' = "principal"
                /\ UNCHANGED result
           ELSE /\ Return(<<>>, StoreIOError)
                /\ UNCHANGED <<loc, mem>>
    /\ UNCHANGED <<config, now, disk, options, stderr, linesRead, nInv,
                   issued, typed, atStart>>

\* CurrentPrincipalIsAssumedRole, the cache check, and the choice of the
\* role ARN and the session name that follows it
PrincipalOutcomes == {"user", "assumed-role", "error"}

CacheHit(storeOk) ==
    /\ log' = log \o
         << [Call("CurrentPrincipalARN") EXCEPT !.out = "ok"],
            [Call("GetCredentials") EXCEPT
                !.key = loc.profileName,
                !.out = IF storeOk THEN "ok" ELSE "error"] >>
    /\ mem' = profileIniSection(credentialsIniSection(mem, loc.profileName),
                                loc.profileName)
    /\ IF storeOk
       THEN Return(<<GetCredentials(mem, loc.profileName)>>, NoErr)
       ELSE Return(<<>>, StoreIOError)

\* sessionNameNext without the currentPrincipalIsAssumedRole test: the
\* username is looked up whoever the caller is
sessionNameNext_alwaysUsername(name, isAssumedRole) ==
    IF name # "" THEN "call" ELSE "username"

\* what follows the choice of the session name: the provider call, the
\* validation error, or the lookup of the username
sessionNameNext(name, isAssumedRole) ==
    CASE name # "" -> "call"
      [] isAssumedRole -> "fail"
      [] OTHER -> "username"

CacheMiss(isAssumedRole) ==
    LET arn == requestRoleARN(config, options.UserRole)
        name == chooseSessionName(loc.profile, options)
        next == sessionNameNext(name, isAssumedRole)
        base == [loc EXCEPT !.currentPrincipalIsAssumedRole = isAssumedRole,
                            !.roleARN = arn,
                            !.profile.RoleARN = arn]
    IN  /\ log' = Append(log, [Call("CurrentPrincipalARN") EXCEPT !.out = "ok"])
        /\ mem' = mem
        /\ CASE next = "call" ->
                  /\ loc' = [base EXCEPT !.sessionName = name,
                                         !.profile.RoleSessionName = name]
                  /\ pc' = "noMFA"
                  /\ UNCHANGED result
             [] next = "fail" ->
                  /\ loc' = base
                  /\ Return(<<>>, errAssumedRoleNeedsSessionName)
             [] OTHER ->
                  /\ loc' = base
                  /\ pc' = "username"
                  /\ UNCHANGED result

PrincipalStep ==
    /\ pc = "principal"
    /\ \E outcome \in PrincipalOutcomes, storeOk \in BOOLEAN :
        IF outcome = "error"
        THEN /\ log' = Append(log, [Call("CurrentPrincipalARN") EXCEPT
                                       !.out = "error"])
             /\ Return(<<>>, Errorf("ERROR while checking IAM principal type: ",
                                    OtherAwsErr))
             /\ UNCHANGED <<loc, mem>>
        ELSE IF ~credentialsExpired(config, now, loc.profile.Expires)
        THEN /\ CacheHit(storeOk)
             /\ loc' = [loc EXCEPT !.currentPrincipalIsAssumedRole =
                                       (outcome = "assumed-role")]
        ELSE CacheMiss(outcome = "assumed-role")
    /\ UNCHANGED <<config, now, disk, options, stderr, linesRead, nInv,
                   issued, typed, atStart>>

\* sessionName, err = app.aws.Username()
UsernameStep ==
    /\ pc = "username"
    /\ \E ok \in BOOLEAN :
        /\ log' = Append(log, [Call("Username") EXCEPT
                                  !.out = IF ok THEN "ok" ELSE "error"])
        /\ IF ok
           THEN /\ loc' = [loc EXCEPT !.sessionName = UserName,
                                      !.profile.RoleSessionName = UserName]
                /\ pc' = "noMFA"
                /\ UNCHANGED result
           ELSE /\ Return(<<>>, Errorf("unable to get username from AWS: ",
                                       OtherAwsErr))
                /\ UNCHANGED loc
    /\ UNCHANGED <<config, now, disk, mem, options, stderr, linesRead, nInv,
                   issued, typed, atStart>>

\* creds, err := app.aws.AssumeRole(roleARN, sessionName), and what follows
\* up to the call of app.save or app.mfaDevice
NoMFAOutcomes == {"creds", "denied", "other"}

\* NoMFANext without the "creds != nil" return: credentials from the
\* attempt without MFA do not end the invocation
NoMFANext_ignoringCreds(outcome, isAssumedRole) ==
    CASE outcome = "other" -> "fail"
      [] isAssumedRole -> "gate"
      [] OTHER -> "mfa"

\* NoMFANext without the IsAWSAccessDeniedError test: any error of the
\* attempt without MFA leads to the MFA attempt
NoMFANext_anyErrorRetries(outcome, isAssumedRole) ==
    CASE outcome = "creds" -> "save"
      [] isAssumedRole -> "gate"
      [] OTHER -> "mfa"

\* NoMFANext with app.save called after an access-denied answer as well
NoMFANext_savingAnyway(outcome, isAssumedRole) ==
    CASE outcome = "other" -> "fail"
      [] OTHER -> "save"

\* NoMFANext without the "if currentPrincipalIsAssumedRole" return
NoMFANext_noGate(outcome, isAssumedRole) ==
    CASE outcome = "creds" -> "save"
      [] outcome = "denied" -> "mfa"
      [] OTHER -> "fail"

\* what AssumeRole does with the answer to the attempt without MFA: save the
\* credentials, fail with the provider's error, fail at the MFA gate with
\* the collected errors, or go on to the MFA attempt
NoMFANext(outcome, isAssumedRole) ==
    CASE outcome = "creds" -> "save"
      [] outcome = "denied" -> IF isAssumedRole THEN "gate" ELSE "mfa"
      [] OTHER -> "fail"

NoMFAStep ==
    /\ pc = "noMFA"
    /\ \E outcome \in NoMFAOutcomes :
        LET c == NewCredentials(issued + 1, now + CredentialsLifetime)
            err == IF outcome = "denied" THEN AccessDenied ELSE OtherAwsErr
            finalErr == IF outcome = "denied"
                        THEN MultiAppend(NoErr, Errorf(WithoutMFAPhrase, err))
                        ELSE NoErr
            next == NoMFANext(outcome, loc.currentPrincipalIsAssumedRole)
        IN  /\ log' = Append(log, [Call("AssumeRole") EXCEPT
                                      !.role = loc.roleARN,
                                      !.session = loc.sessionName,
                                      !.out = outcome])
            /\ issued' = IF outcome = "creds" THEN issued + 1 ELSE issued
            /\ loc' = [loc EXCEPT
                          !.creds = IF outcome = "creds" THEN <<c>> ELSE <<>>,
                          !.finalErr = finalErr,
                          !.profile.Expires =
                              IF outcome = "creds" /\ next = "save"
                              THEN c.Expires ELSE @]
            /\ CASE next = "save" -> pc' = "setProfile" /\ UNCHANGED result
                 [] next = "fail" -> Return(<<>>, err)
                 [] next = "gate" -> Return(<<>>, finalErr)
                 [] OTHER -> pc' = "mfaDevices" /\ UNCHANGED result
    /\ UNCHANGED <<config, now, disk, mem, options, stderr, linesRead, nInv,
                   typed, atStart>>

\* App.save without the "return err" after SetProfile: SetCredentials is
\* called whatever SetProfile returned
save_ignoringProfileError(profileSaved) == "setCredentials"

\* App.save: SetCredentials is called only when SetProfile returned nil
save(profileSaved) == IF profileSaved THEN "setCredentials" ELSE "fail"

\* app.save, first half: app.awsConfig.SetProfile(profileName, profile)
SetProfileStep ==
    /\ pc = "setProfile"
    /\ \E saved \in BOOLEAN :
        /\ log' = Append(log, [Call("SetProfile") EXCEPT
                                  !.key = loc.profileName,
                                  !.out = IF saved THEN "ok" ELSE "error"])
        /\ mem' = SetProfile(mem, loc.profileName, loc.profile)
        /\ disk' = IF saved THEN SaveTo(disk, "config", mem') ELSE disk
        /\ IF save(saved) = "setCredentials"
           THEN /\ pc' = "setCredentials"
                /\ UNCHANGED result
           ELSE Return(<<>>, StoreIOError)
    /\ UNCHANGED <<config, now, options, loc, stderr, linesRead, nInv, issued,
                   typed, atStart>>

\* app.save, second half: app.awsConfig.SetCredentials(profileName, creds),
\* which saves the config file and then the credentials file
SaveOutcomes == {"ok", "config-error", "credentials-error"}

\* AssumeRole returning the credentials although app.save failed
saveResult_returningCreds(outcome, creds) == [creds |-> creds, err |-> NoErr]

\* "if err := app.save(...); err != nil { return nil, err }; return creds,
\* nil": what AssumeRole returns after SetCredentials
saveResult(outcome, creds) ==
    IF outcome = "ok" THEN [creds |-> creds, err |-> NoErr]
    ELSE [creds |-> <<>>, err |-> StoreIOError]

SetCredentialsStep ==
    /\ pc = "setCredentials"
    /\ \E outcome \in SaveOutcomes :
        /\ log' = Append(log, [Call("SetCredentials") EXCEPT
                                  !.key = loc.profileName,
                                  !.out = outcome])
        /\ mem' = SetCredentials(mem, loc.profileName, loc.creds[1])
        /\ disk' = CASE outcome = "ok" ->
                            SaveTo(SaveTo(disk, "config", mem'),
                                   "credentials", mem')
                     [] outcome = "config-error" -> disk
                     [] OTHER -> SaveTo(disk, "config", mem')
        /\ result' = saveResult(outcome, loc.creds)
        /\ pc' = "done"
    /\ UNCHANGED <<config, now, options, loc, stderr, linesRead, nInv, issued,
                   typed, atStart>>

\* FailWithMFA with "finalErr = err" in place of multierror.Append: the new
\* cause replaces what was collected
FailWithMFA_replacing(cause) ==
    LET finalErr == MultiAppend(NoErr, cause)
    IN  /\ loc' = [loc EXCEPT !.finalErr = finalErr]
        /\ Return(<<>>, finalErr)

\* the MFA attempt failed before or at AssumeRoleWithMFA: the cause joins
\* finalErr and AssumeRole returns it
FailWithMFA(cause) ==
    LET finalErr == MultiAppend(loc.finalErr, cause)
    IN  /\ loc' = [loc EXCEPT !.finalErr = finalErr]
        /\ Return(<<>>, finalErr)

\* App.mfaDevice picked a device: profile.MFASerial = mfaDeviceARN
DeviceChosen(device) ==
    /\ loc' = [loc EXCEPT !.mfaDeviceARN = device,
                          !.profile.MFASerial = device]
    /\ pc' = "mfaToken"
    /\ UNCHANGED result

\* mfaDeviceChoice without the "len(devices) == 1" shortcut
mfaDeviceChoice_singlePrompts(devices) ==
    CASE Len(devices) < 1 -> "none"
      [] OTHER -> "prompt"

\* mfaDeviceChoice without the "len(devices) < 1" error
mfaDeviceChoice_emptyPrompts(devices) ==
    CASE Len(devices) = 1 -> "single"
      [] OTHER -> "prompt"

\* App.mfaDevice, the three cases of len(devices)
mfaDeviceChoice(devices) ==
    CASE Len(devices) < 1 -> "none"
      [] Len(devices) = 1 -> "single"
      [] OTHER -> "prompt"

\* App.mfaDevice up to the prompt: devices, err := app.aws.MFADevices()
MFADevicesStep ==
    /\ pc = "mfaDevices"
    /\ \E ok \in BOOLEAN, devices \in DeviceLists :
        /\ log' = Append(log, [Call("MFADevices") EXCEPT
                                  !.devices = IF ok THEN devices ELSE <<>>,
                                  !.out = IF ok THEN "ok" ELSE "error"])
        /\ IF ~ok
           THEN FailWithMFA(Errorf(WithMFAPhrase, OtherAwsErr))
           ELSE CASE mfaDeviceChoice(devices) = "none" ->
                       FailWithMFA(Errorf(WithMFAPhrase,
                                          PlainErr("no MFA devices found")))
                  [] mfaDeviceChoice(devices) = "single" ->
                       DeviceChosen(devices[1])
                  [] OTHER ->
                       /\ loc' = [loc EXCEPT !.devices = devices]
                       /\ pc' = "prompt"
                       /\ UNCHANGED result
    /\ UNCHANGED <<config, now, disk, mem, options, stderr, linesRead, nInv,
                   issued, typed, atStart>>

\* the device list and the prompt, as App.mfaDevice writes them at Prompt:
DevicePrompt(devices) ==
    [i \in 1..Len(devices) |-> DeviceLine(i, devices[i])]
        \o <<Written("Select MFA device: ")>>

\* devices[userInputInt-1] taken one position too far
selectedDevice_nextPosition(devices, userInputInt) ==
    devices[(userInputInt % Len(devices)) + 1]

\* return devices[userInputInt-1], nil: the userInputInt-th of the list
selectedDevice(devices, userInputInt) == devices[userInputInt]

\* an invalid input that ends the selection with an error
InvalidInput_givingUp(message, shown) ==
    /\ stderr' = Append(shown, Written(message))
    /\ FailWithMFA(Errorf(WithMFAPhrase, PlainErr(message)))

\* app.stderr.Write(message); goto Prompt
InvalidInput(message, shown) ==
    /\ stderr' = Append(shown, Written(message))
    /\ UNCHANGED <<loc, pc, result>>

\* App.mfaDevice from the label Prompt: one pass of the selection loop, the
\* user typing one of the lines given
mfaDevicePrompt(lines) ==
    /\ pc = "prompt"
    /\ \/ \* readInput fails: the input has ended
          /\ stderr' = stderr \o DevicePrompt(loc.devices)
          /\ FailWithMFA(Errorf(WithMFAPhrase,
                 Errorf("unable to read MFA device option from stdin: ", IoEOF)))
          /\ UNCHANGED <<linesRead, typed>>
       \/ /\ linesRead < MaxInputLines
          /\ \E line \in lines :
               LET userInput == readInput(line)
                   shown == stderr \o DevicePrompt(loc.devices)
               IN  /\ linesRead' = linesRead + 1
                   /\ typed' = Append(typed, line)
                   /\ IF ~AtoiOk(userInput)
                      THEN InvalidInput("Invalid input (not a number)\n", shown)
                      ELSE IF Atoi(userInput) < 1
                              \/ Atoi(userInput) > Len(loc.devices)
                      THEN InvalidInput("Invalid input (not in range)\n", shown)
                      ELSE /\ stderr' = shown
                           /\ DeviceChosen(selectedDevice(loc.devices,
                                                          Atoi(userInput)))
    /\ UNCHANGED <<config, now, disk, mem, options, log, nInv, issued, atStart>>

PromptStep == mfaDevicePrompt(InputLines)

\* App.mfaToken
MfaTokenStep ==
    /\ pc = "mfaToken"
    /\ \E isTerminal \in BOOLEAN :
        LET echoed == IF isTerminal
                      THEN <<Written("Enter MFA token: "), Written("\n")>>
                      ELSE <<Written("Enter MFA token: ")>>
        IN  /\ stderr' = stderr \o echoed
            /\ \/ /\ FailWithMFA(Errorf(WithMFAPhrase,
                         Errorf("unable to read MFA token from stdin: ", IoEOF)))
                  /\ UNCHANGED <<linesRead, typed>>
               \/ /\ linesRead < MaxInputLines
                  /\ \E line \in TokenLines :
                       LET token == IF isTerminal THEN line ELSE readInput(line)
                       IN  /\ loc' = [loc EXCEPT !.mfaToken = TrimSpace(token)]
                           /\ linesRead' = linesRead + 1
                           /\ typed' = Append(typed, line)
                           /\ pc' = "withMFA"
                           /\ UNCHANGED result
    /\ UNCHANGED <<config, now, disk, mem, options, log, nInv, issued, atStart>>

\* creds, err = app.aws.AssumeRoleWithMFA(roleARN, sessionName, device, token)
WithMFAOutcomes == {"creds", "denied", "other"}

WithMFAStep ==
    /\ pc = "withMFA"
    /\ \E outcome \in WithMFAOutcomes :
        /\ log' = Append(log, [Call("AssumeRoleWithMFA") EXCEPT
                                  !.role = loc.roleARN,
                                  !.session = loc.sessionName,
                                  !.device = loc.mfaDeviceARN,
                                  !.token = loc.mfaToken,
                                  !.out = outcome])
        /\ IF outcome = "creds"
           THEN LET c == NewCredentials(issued + 1, now + CredentialsLifetime)
                IN  /\ loc' = [loc EXCEPT !.creds = <<c>>,
                                          !.profile.Expires = c.Expires]
                    /\ issued' = issued + 1
                    /\ pc' = "setProfile"
                    /\ UNCHANGED result
           ELSE /\ FailWithMFA(ErrorfSuffix(WithMFAPhrase,
                      IF outcome = "denied" THEN AccessDenied ELSE OtherAwsErr,
                      "; giving up"))
                /\ UNCHANGED issued
    /\ UNCHANGED <<config, now, disk, mem, options, stderr, linesRead, nInv,
                   typed, atStart>>

Next ==
    \/ Start
    \/ GetProfileStep
    \/ PrincipalStep
    \/ UsernameStep
    \/ NoMFAStep
    \/ SetProfileStep
    \/ SetCredentialsStep
    \/ MFADevicesStep
    \/ PromptStep
    \/ MfaTokenStep
    \/ WithMFAStep

Spec == Init /\ [][Next]_vars

\* the same invocations, every call of which returns: a process that can
\* take its next step does take it.  The input is finite: at most
\* MaxInputLines lines can be read before readInput reports its end.
LiveSpec == Spec /\ WF_vars(Next)

(***************************************************************************)
(* The store on its own: a process that holds one AWSConfig and calls its  *)
(* four operations with arguments of its choice, as the store's tests do.  *)
(* mem is the AWSConfig's two inis, disk the files, log the calls with     *)
(* their arguments and what they returned.                                 *)
(***************************************************************************)
\* profiles and credentials to store: expiries on a whole second and a tick
\* past one
StoreProfiles ==
    { [Expires |-> t, MFASerial |-> IF n = "" THEN "" ELSE DeviceName(1),
       SourceProfile |-> "", RoleARN |-> FullRoleA, RoleSessionName |-> n] :
        t \in {StartTime, StartTime + 1}, n \in SessionNames }

StoreCredentials ==
    { NewCredentials(1, StartTime + Hour), NewCredentials(2, StartTime + 1) }

\* one call of the store: arg and ret hold the value given or returned in a
\* one-element sequence, <<>> when there is none
StoreCall(op, key, arg, ret, err) ==
    [op |-> op, key |-> key, arg |-> arg, ret |-> ret, err |-> err]

StoreInit ==
    /\ config = setDefaults(MakeConfig(0, <<>>, ""))
    /\ now = StartTime
    /\ disk = EmptyIni
    /\ mem = EmptyIni
    /\ pc = "store"
    /\ options = [UserRole |-> <<>>, RoleSessionName |-> ""]
    /\ loc = InitLoc
    /\ result = NoResult
    /\ log = <<>>
    /\ stderr = <<>>
    /\ linesRead = 0
    /\ nInv = 0
    /\ issued = 0
    /\ typed = <<>>
    /\ atStart = [disk |-> EmptyIni, profile |-> ZeroProfile]

StoreUnchanged ==
    UNCHANGED <<config, now, pc, options, loc, result, stderr, linesRead,
                nInv, issued, typed, atStart>>

\* AWSConfig.GetProfile
StoreGetProfile ==
    /\ pc = "store"
    /\ Len(log) < MaxStoreCalls
    /\ \E k \in ProfileKeys :
        /\ mem' = profileIniSection(mem, k)
        /\ log' = Append(log, StoreCall("GetProfile", k, <<>>,
                                        <<GetProfile(mem, k)>>, NoErr))
    /\ UNCHANGED disk
    /\ StoreUnchanged

\* AWSConfig.SetProfile, SaveTo succeeding or failing
StoreSetProfile ==
    /\ pc = "store"
    /\ Len(log) < MaxStoreCalls
    /\ \E k \in ProfileKeys, p \in StoreProfiles, saved \in BOOLEAN :
        /\ mem' = SetProfile(mem, k, p)
        /\ disk' = IF saved THEN SaveTo(disk, "config", mem') ELSE disk
        /\ log' = Append(log, StoreCall("SetProfile", k, <<p>>, <<>>,
                             IF saved THEN NoErr ELSE StoreIOError))
    /\ StoreUnchanged

\* AWSConfig.GetCredentials
StoreGetCredentials ==
    /\ pc = "store"
    /\ Len(log) < MaxStoreCalls
    /\ \E k \in ProfileKeys :
        /\ mem' = profileIniSection(credentialsIniSection(mem, k), k)
        /\ log' = Append(log, StoreCall("GetCredentials", k, <<>>,
                                        <<GetCredentials(mem, k)>>, NoErr))
    /\ UNCHANGED disk
    /\ StoreUnchanged

\* AWSConfig.SetCredentials, with the outcomes of its two SaveTo calls
StoreSetCredentials ==
    /\ pc = "store"
    /\ Len(log) < MaxStoreCalls
    /\ \E k \in ProfileKeys, c \in StoreCredentials, outcome \in SaveOutcomes :
        /\ mem' = SetCredentials(mem, k, c)
        /\ disk' = CASE outcome = "ok" ->
                            SaveTo(SaveTo(disk, "config", mem'),
                                   "credentials", mem')
                     [] outcome = "config-error" -> disk
                     [] OTHER -> SaveTo(disk, "config", mem')
        /\ log' = Append(log, StoreCall("SetCredentials", k, <<c>>, <<>>,
                             IF outcome = "ok" THEN NoErr ELSE StoreIOError))
    /\ StoreUnchanged

\* the next invocation: a new process, whose NewAWSConfig loads the files
StoreReload ==
    /\ pc = "store"
    /\ Len(log) < MaxStoreCalls
    /\ mem' = LooseLoad(disk)
    /\ log' = Append(log, StoreCall("NewAWSConfig", <<>>, <<>>, <<>>, NoErr))
    /\ UNCHANGED disk
    /\ StoreUnchanged

StoreNext ==
    \/ StoreReload
    \/ StoreGetProfile
    \/ StoreSetProfile
    \/ StoreGetCredentials
    \/ StoreSetCredentials

StoreSpec == StoreInit /\ [][StoreNext]_vars

(***************************************************************************)
(* The device selection on its own: App.mfaDevice at the label Prompt with *)
(* a list of several devices, the user typing any of SelectionLines, and   *)
(* App.mfaToken after it.                                                  *)
(***************************************************************************)
SelectInit ==
    /\ config = setDefaults(MakeConfig(0, <<>>, ""))
    /\ now = StartTime
    /\ disk = EmptyIni
    /\ mem = EmptyIni
    /\ pc = "prompt"
    /\ options = [UserRole |-> FullRoleA, RoleSessionName |-> ""]
    /\ \E devices \in {d \in DeviceLists : Len(d) > 1} :
          loc = [InitLoc EXCEPT !.devices = devices]
    /\ result = NoResult
    /\ log = <<>>
    /\ stderr = <<>>
    /\ linesRead = 0
    /\ nInv = 1
    /\ issued = 0
    /\ typed = <<>>
    /\ atStart = [disk |-> EmptyIni, profile |-> ZeroProfile]

SelectNext ==
    \/ mfaDevicePrompt(SelectionLines)
    \/ MfaTokenStep

SelectSpec == SelectInit /\ [][SelectNext]_vars

(***************************************************************************)
(* Two invocations at once on the same profile key.  Each is a process of  *)
(* its own: NewAWSConfig loads the two files, AssumeRole reads the cached  *)
(* profile and, unless it is fresh, obtains credentials and saves; every   *)
(* SaveTo rewrites one file whole, and nothing is locked.  Here pc, mem    *)
(* and loc hold one value per process, and log the writes in the order in  *)
(* which they completed.                                                   *)
(***************************************************************************)
Writers == {1, 2}
RaceConfig == setDefaults(MakeConfig(0, <<>>, ""))
RaceKey == profileName(RaceConfig, FullRoleA)

\* what the provider issues to each process, and the override each passes
WriterCredentials(w) == NewCredentials(w, StartTime + Hour + w * Minute)
WriterOverride(w) == IF w = 1 THEN "alice" ELSE ""

FileWrite(w, name, ini) == [writer |-> w, file |-> name, content |-> ini[name]]

RaceInit ==
    /\ config = RaceConfig
    /\ now = StartTime
    /\ disk = EmptyIni
    /\ mem = [w \in Writers |-> EmptyIni]
    /\ pc = [w \in Writers |-> "loadConfig"]
    /\ options = [UserRole |-> FullRoleA, RoleSessionName |-> ""]
    /\ loc = [w \in Writers |-> [profile |-> ZeroProfile, creds |-> <<>>]]
    /\ result = NoResult
    /\ log = <<>>
    /\ stderr = <<>>
    /\ linesRead = 0
    /\ nInv = 0
    /\ issued = 0
    /\ typed = <<>>
    /\ atStart = [disk |-> EmptyIni, profile |-> ZeroProfile]

RaceUnchanged ==
    UNCHANGED <<config, now, options, result, stderr, linesRead, nInv,
                issued, typed, atStart>>

\* NewAWSConfig: ini.LooseLoad of the config file
RaceLoadConfig(w) ==
    /\ pc[w] = "loadConfig"
    /\ mem' = [mem EXCEPT ![w].config = LooseLoad(disk).config]
    /\ pc' = [pc EXCEPT ![w] = "loadCredentials"]
    /\ UNCHANGED <<disk, loc, log>>
    /\ RaceUnchanged

\* NewAWSConfig: ini.LooseLoad of the credentials file
RaceLoadCredentials(w) ==
    /\ pc[w] = "loadCredentials"
    /\ mem' = [mem EXCEPT ![w].credentials =
                             LooseLoad(disk).credentials]
    /\ pc' = [pc EXCEPT ![w] = "assume"]
    /\ UNCHANGED <<disk, loc, log>>
    /\ RaceUnchanged

\* AssumeRole for the profile key given, up to app.save: a cache hit ends the invocation without a
\* write; else the provider issues credentials, with or without MFA
RaceAssume(w, key) ==
    /\ pc[w] = "assume"
    /\ LET cached == GetProfile(mem[w], key)
           chosen == chooseSessionName(cached,
                        [UserRole |-> FullRoleA,
                         RoleSessionName |-> WriterOverride(w)])
           name == IF chosen # "" THEN chosen ELSE UserName
           c == WriterCredentials(w)
       IN  IF ~credentialsExpired(config, now, cached.Expires)
           THEN /\ pc' = [pc EXCEPT ![w] = "done"]
                /\ UNCHANGED loc
           ELSE \E withMFA \in BOOLEAN :
                /\ loc' = [loc EXCEPT ![w] =
                     [profile |->
                         [cached EXCEPT
                             !.RoleARN = requestRoleARN(config, FullRoleA),
                             !.RoleSessionName = name,
                             !.MFASerial = IF withMFA THEN DeviceName(w)
                                           ELSE @,
                             !.Expires = c.Expires],
                      creds |-> <<c>>]]
                /\ pc' = [pc EXCEPT ![w] = "setProfile"]
    /\ mem' = [mem EXCEPT ![w] = profileIniSection(mem[w], key)]
    /\ UNCHANGED <<disk, log>>
    /\ RaceUnchanged

\* AWSConfig.SetProfile
RaceSetProfile(w, key) ==
    /\ pc[w] = "setProfile"
    /\ mem' = [mem EXCEPT ![w] = SetProfile(mem[w], key, loc[w].profile)]
    /\ disk' = SaveTo(disk, "config", mem'[w])
    /\ log' = Append(log, FileWrite(w, "config", mem'[w]))
    /\ pc' = [pc EXCEPT ![w] = "setCredentials"]
    /\ UNCHANGED loc
    /\ RaceUnchanged

\* AWSConfig.SetCredentials up to its first SaveTo, of the config file
RaceSetCredentials(w, key) ==
    /\ pc[w] = "setCredentials"
    /\ mem' = [mem EXCEPT ![w] =
                  SetCredentials(mem[w], key, loc[w].creds[1])]
    /\ disk' = SaveTo(disk, "config", mem'[w])
    /\ log' = Append(log, FileWrite(w, "config", mem'[w]))
    /\ pc' = [pc EXCEPT ![w] = "saveCredentials"]
    /\ UNCHANGED loc
    /\ RaceUnchanged

\* AWSConfig.SetCredentials, its second SaveTo, of the credentials file
RaceSaveCredentials(w) ==
    /\ pc[w] = "saveCredentials"
    /\ disk' = SaveTo(disk, "credentials", mem[w])
    /\ log' = Append(log, FileWrite(w, "credentials", mem[w]))
    /\ pc' = [pc EXCEPT ![w] = "done"]
    /\ UNCHANGED <<mem, loc>>
    /\ RaceUnchanged

RaceNext ==
    \E w \in Writers :
        \/ RaceLoadConfig(w)
        \/ RaceLoadCredentials(w)
        \/ RaceAssume(w, RaceKey)
        \/ RaceSetProfile(w, RaceKey)
        \/ RaceSetCredentials(w, RaceKey)
        \/ RaceSaveCredentials(w)

RaceSpec == RaceInit /\ [][RaceNext]_vars

(***************************************************************************)
(* Two invocations at once on two profile keys: the same processes, the    *)
(* second one run where a configuration file sets a profile name prefix,   *)
(* so that its profile is stored under another key of the same two files.  *)
(***************************************************************************)
WriterKey(w) ==
    IF w = 1 THEN RaceKey
    ELSE profileName(setDefaults(MakeConfig(5 * Minute, RoleArnPrefix,
                                            "foobar")), <<"testRole">>)

KeysNext ==
    \E w \in Writers :
        \/ RaceLoadConfig(w)
        \/ RaceLoadCredentials(w)
        \/ RaceAssume(w, WriterKey(w))
        \/ RaceSetProfile(w, WriterKey(w))
        \/ RaceSetCredentials(w, WriterKey(w))
        \/ RaceSaveCredentials(w)

KeysSpec == RaceInit /\ [][KeysNext]_vars

(***************************************************************************)
(* DeferredFuncs (package deferredfuncs).  One DeferredFuncs d, made by    *)
(* New; goroutine 1 calls d.Run() and each of Registrars calls             *)
(* d.Register(f) with a function of its own.  Here mem is d (its funcs and *)
(* its mutex: w the goroutine that holds or awaits the write lock, 0 when  *)
(* none, readers the number of read locks held), pc and loc hold one value *)
(* per goroutine, log the functions Run has called, in order, and issued   *)
(* the functions registered so far, in the order New and the Register      *)
(* calls completed.                                                        *)
(***************************************************************************)
Registrars == {2, 3}

\* the function goroutine g registers; 0 is the one given to New
RegisterArgs(g) == <<[name |-> "f", id |-> g]>>

\* a function that, when called, calls d.Register with one more function
Reentrant == [name |-> "registers", id |-> 1]

\* Lock that does not wait for the writer that holds or awaits the lock
Lockable_ignoringWriters(mutex) == TRUE

\* sync.RWMutex.Lock, its first half: writers exclude one another
Lockable(mutex) == mutex.w = 0

DeferredInit ==
    /\ config = RaceConfig
    /\ now = StartTime
    /\ disk = EmptyIni
    /\ \E funcs \in {RegisterArgs(0), RegisterArgs(0) \o <<Reentrant>>} :
          /\ mem = [funcs |-> funcs, w |-> 0, readers |-> 0]
          /\ issued = funcs
    /\ pc = [g \in {1} \cup Registrars |-> IF g = 1 THEN "Run" ELSE "Lock"]
    /\ options = [UserRole |-> FullRoleA, RoleSessionName |-> ""]
    /\ loc = [g \in {1} \cup Registrars |->
                [funcs |-> <<>>, i |-> 0, before |-> <<>>, nested |-> FALSE,
                 args |-> RegisterArgs(g), seen |-> <<>>]]
    /\ result = NoResult
    /\ log = <<>>
    /\ stderr = <<>>
    /\ linesRead = 0
    /\ nInv = 0
    /\ typed = <<>>
    /\ atStart = [disk |-> EmptyIni, profile |-> ZeroProfile]

DeferredUnchanged ==
    UNCHANGED <<config, now, disk, options, result, stderr, linesRead, nInv,
                typed, atStart>>

\* the goroutine calls d.Run()
RunStart(g) ==
    /\ pc[g] = "Run"
    /\ loc' = [loc EXCEPT ![g].before = issued]
    /\ pc' = [pc EXCEPT ![g] = "RLock"]
    /\ UNCHANGED <<mem, log, issued>>
    /\ DeferredUnchanged

\* d.mutex.RLock(), which waits while a writer holds or awaits the lock,
\* and the evaluation of "range d.funcs"
RunRLock(g) ==
    /\ pc[g] = "RLock"
    /\ mem.w = 0
    /\ mem' = [mem EXCEPT !.readers = @ + 1]
    /\ loc' = [loc EXCEPT ![g].funcs = mem.funcs, ![g].i = 1]
    /\ pc' = [pc EXCEPT ![g] = "range"]
    /\ UNCHANGED <<log, issued>>
    /\ DeferredUnchanged

\* f(): the next function of the range; the one that registers enters
\* d.Register from within Run
RunCall(g) ==
    /\ pc[g] = "range"
    /\ loc[g].i <= Len(loc[g].funcs)
    /\ log' = Append(log, loc[g].funcs[loc[g].i])
    /\ IF loc[g].funcs[loc[g].i] = Reentrant
       THEN /\ loc' = [loc EXCEPT ![g].nested = TRUE]
            /\ pc' = [pc EXCEPT ![g] = "Lock"]
       ELSE /\ loc' = [loc EXCEPT ![g].i = @ + 1]
            /\ UNCHANGED pc
    /\ UNCHANGED <<mem, issued>>
    /\ DeferredUnchanged

\* d.mutex.RUnlock() after the last function
RunRUnlock(g) ==
    /\ pc[g] = "range"
    /\ loc[g].i > Len(loc[g].funcs)
    /\ mem' = [mem EXCEPT !.readers = @ - 1]
    /\ pc' = [pc EXCEPT ![g] = "done"]
    /\ UNCHANGED <<loc, log, issued>>
    /\ DeferredUnchanged

\* d.mutex.Lock(), first half: the goroutine becomes the writer
RegisterLock(g) ==
    /\ pc[g] = "Lock"
    /\ Lockable(mem)
    /\ mem' = [mem EXCEPT !.w = g]
    /\ pc' = [pc EXCEPT ![g] = "drain"]
    /\ UNCHANGED <<loc, log, issued>>
    /\ DeferredUnchanged

\* d.mutex.Lock(), second half: the writer waits until no read lock is
\* held; then append reads d.funcs
RegisterLocked(g) ==
    /\ pc[g] = "drain"
    /\ mem.readers = 0
    /\ loc' = [loc EXCEPT ![g].seen = mem.funcs]
    /\ pc' = [pc EXCEPT ![g] = "append"]
    /\ UNCHANGED <<mem, log, issued>>
    /\ DeferredUnchanged

\* d.funcs = append(d.funcs, funcs...); d.mutex.Unlock()
RegisterAppend(g) ==
    /\ pc[g] = "append"
    /\ mem' = [mem EXCEPT !.funcs = loc[g].seen \o loc[g].args, !.w = 0]
    /\ issued' = issued \o loc[g].args
    /\ IF loc[g].nested
       THEN /\ loc' = [loc EXCEPT ![g].nested = FALSE, ![g].i = @ + 1]
            /\ pc' = [pc EXCEPT ![g] = "range"]
       ELSE /\ pc' = [pc EXCEPT ![g] = "done"]
            /\ UNCHANGED loc
    /\ UNCHANGED log
    /\ DeferredUnchanged

DeferredNext ==
    \E g \in {1} \cup Registrars :
        \/ RunStart(g)
        \/ RunRLock(g)
        \/ RunCall(g)
        \/ RunRUnlock(g)
        \/ RegisterLock(g)
        \/ RegisterLocked(g)
        \/ RegisterAppend(g)

DeferredSpec == DeferredInit /\ [][DeferredNext]_vars

\* every goroutine that can take a step does take one
DeferredLive == DeferredSpec /\ WF_vars(DeferredNext)

(***************************************************************************)
(* The command line (cli package).  Arguments are strings; an invocation   *)
(* is cli.Main run by the shell with a list of arguments.                  *)
(***************************************************************************)
RoleArg == "arn:aws:iam::123:role/testRole"
ArgTokens ==
    {"--role", "--role-session-name", "--", "--force-refresh", "--help",
     RoleArg, "ls"}
ArgLists == UNION {[1..n -> ArgTokens] : n \in 0..MaxArgs}

\* the role argument as the sequence of atoms the App works on
ArgRole(arg) == IF arg = RoleArg THEN FullRoleA ELSE <<arg>>

errNoRole == PlainErr("Missing required argument: --role")

\* cliOpts{}
ZeroOpts == [args |-> <<>>, role |-> "", roleSessionName |-> ""]

\* argumentList.Next: the first argument, "" when there is none, and the
\* list it leaves
NextArg(a) == IF Len(a) = 0 THEN "" ELSE Head(a)
AfterNext(a) == IF Len(a) = 0 THEN a ELSE Tail(a)

\* ArgsLoop that goes on after an argument it does not know, dropping it
RECURSIVE ArgsLoop_skippingUnknown(_, _)
ArgsLoop_skippingUnknown(args, opts) ==
    IF Len(args) = 0 THEN opts
    ELSE LET arg == NextArg(args)
             rest == AfterNext(args)
         IN  CASE arg = "--role" ->
                    ArgsLoop_skippingUnknown(AfterNext(rest),
                        [opts EXCEPT !.role = NextArg(rest)])
               [] arg = "--role-session-name" ->
                    ArgsLoop_skippingUnknown(AfterNext(rest),
                        [opts EXCEPT !.roleSessionName = NextArg(rest)])
               [] arg = "--" ->
                    [opts EXCEPT !.args = opts.args \o rest]
               [] OTHER ->
                    ArgsLoop_skippingUnknown(rest, opts)

\* parseOptions, the loop ArgsLoop
RECURSIVE ArgsLoop(_, _)
ArgsLoop(args, opts) ==
    IF Len(args) = 0 THEN opts
    ELSE LET arg == NextArg(args)
             rest == AfterNext(args)
         IN  CASE arg = "--role" ->
                    ArgsLoop(AfterNext(rest),
                             [opts EXCEPT !.role = NextArg(rest)])
               [] arg = "--role-session-name" ->
                    ArgsLoop(AfterNext(rest),
                             [opts EXCEPT !.roleSessionName = NextArg(rest)])
               [] arg = "--" ->
                    [opts EXCEPT !.args = opts.args \o rest]
               [] OTHER ->
                    [opts EXCEPT !.args = (opts.args \o <<arg>>) \o rest]

\* parseOptions: (opts, err)
parseOptions(args, currentPrincipalIsAssumedRole) ==
    LET opts == ArgsLoop(args, ZeroOpts)
    IN  [opts |-> opts,
         err |-> IF opts.role = "" THEN errNoRole
                 ELSE IF opts.roleSessionName = ""
                         /\ currentPrincipalIsAssumedRole
                      THEN errAssumedRoleNeedsSessionName
                      ELSE NoErr]

\* The option --force-refresh that cli.Main reads as userOpts.forceRefresh:
\* the options -f and --force-refresh of the help text, taken out of the
\* arguments that precede the command.
ForceRefreshOptions == {"-f", "--force-refresh"}

RECURSIVE forceRefreshArgs(_)
forceRefreshArgs(args) ==
    IF Len(args) = 0 THEN [args |-> args, forceRefresh |-> FALSE]
    ELSE IF Head(args) \in ForceRefreshOptions
    THEN [forceRefreshArgs(Tail(args)) EXCEPT !.forceRefresh = TRUE]
    ELSE IF Head(args) \in {"--role", "--role-session-name"}
    THEN LET after == forceRefreshArgs(AfterNext(Tail(args)))
         IN  [args |-> SubSeq(args, 1, IF Len(args) = 1 THEN 1 ELSE 2)
                          \o after.args,
              forceRefresh |-> after.forceRefresh]
    ELSE [args |-> args, forceRefresh |-> FALSE]

\* parseOptions as cli.Main calls it: (userOpts, err), userOpts with the
\* field forceRefresh
parseOptionsForceRefresh(args, currentPrincipalIsAssumedRole) ==
    LET given == forceRefreshArgs(args)
        parsed == parseOptions(given.args, currentPrincipalIsAssumedRole)
    IN  [opts |-> parsed.opts, forceRefresh |-> given.forceRefresh,
         err |-> parsed.err]

\* App.AssumeRole with AssumeRoleParameters.ForceRefresh unread
needsRefresh_ignoringForce(forceRefresh, cfg, clockNow, expiryTime) ==
    credentialsExpired(cfg, clockNow, expiryTime)

\* App.AssumeRole with AssumeRoleParameters.ForceRefresh: the cached
\* credentials are returned unless they expired or a refresh is forced
needsRefresh(forceRefresh, cfg, clockNow, expiryTime) ==
    forceRefresh \/ credentialsExpired(cfg, clockNow, expiryTime)

\* credentialsToEnv
credentialsToEnv(creds) ==
    << <<"AWS_ACCESS_KEY_ID", "=", creds.AccessKeyID>>,
       <<"AWS_SECRET_ACCESS_KEY", "=", creds.SecretAccessKey>>,
       <<"AWS_SESSION_TOKEN", "=", creds.SessionToken>> >>

\* Main returning 1 where the command could not be executed
mainExitCode_executeFailsWithOne(stage) ==
    CASE stage \in {"loadApp", "parseOptions", "AssumeRole", "execute"} -> 1
      [] OTHER -> 0

\* the value Main returns at each of its return statements
mainExitCode(stage) ==
    CASE stage \in {"loadApp", "parseOptions", "AssumeRole"} -> 1
      [] stage = "execute" -> 127
      [] OTHER -> 0

(***************************************************************************)
(* cli.Main, one invocation after another from the same shell.  loc holds  *)
(* the arguments, what parseOptions made of them, the place Main returned  *)
(* from and the value it returned; result what AssumeRole returned; typed  *)
(* the lines written to stdout.                                            *)
(***************************************************************************)
CliLoc ==
    [args |-> <<>>, opts |-> ZeroOpts, forceRefresh |-> FALSE,
     stage |-> "", exitCode |-> <<>>]

CliInit ==
    /\ config = setDefaults(MakeConfig(0, <<>>, ""))
    /\ now = StartTime
    /\ disk = EmptyIni
    /\ mem = EmptyIni
    /\ pc = "shell"
    /\ options = [UserRole |-> <<>>, RoleSessionName |-> ""]
    /\ loc = CliLoc
    /\ result = NoResult
    /\ log = <<>>
    /\ stderr = <<>>
    /\ linesRead = 0
    /\ nInv = 0
    /\ issued = 0
    /\ typed = <<>>
    /\ atStart = [disk |-> EmptyIni, profile |-> ZeroProfile]

\* return from Main at the stage named
MainReturn(stage) ==
    /\ loc' = [loc EXCEPT !.stage = stage,
                          !.exitCode = <<mainExitCode(stage)>>]
    /\ pc' = "exited"

\* fmt.Fprintf(stderr, "ERROR: %v\n", err); return
MainFail(stage, err) ==
    /\ stderr' = Append(stderr, <<"ERROR: ">> \o err.text \o <<"\n">>)
    /\ MainReturn(stage)

\* the arguments of an invocation: any list the first time; after that the
\* user runs the same command line again, as it was or with --force-refresh
\* put first
ArgsGiven(previous, n) ==
    IF n = 0 THEN ArgLists
    ELSE {previous} \cup
         (IF Len(previous) < MaxArgs
          THEN {<<"--force-refresh">> \o previous} ELSE {})

\* Main is entered: the help check
MainStart ==
    /\ pc \in {"shell", "exited", "replaced"}
    /\ nInv < MaxInvocations
    /\ \E args \in ArgsGiven(loc.args, nInv),
          advance \in {0, CredentialsLifetime} :
        /\ now' = now + advance
        /\ IF Len(args) = 1 /\ args[1] \in {"-h", "--help"}
           THEN /\ loc' = [CliLoc EXCEPT !.args = args, !.stage = "help",
                                         !.exitCode = <<mainExitCode("help")>>]
                /\ typed' = <<"Assume an AWS role and run the specified command.">>
                /\ pc' = "exited"
           ELSE /\ loc' = [CliLoc EXCEPT !.args = args]
                /\ typed' = <<>>
                /\ pc' = "loadApp"
    /\ nInv' = nInv + 1
    /\ result' = NoResult
    /\ log' = <<>>
    /\ stderr' = <<>>
    /\ atStart' = [disk |-> disk, profile |-> ZeroProfile]
    /\ UNCHANGED <<config, disk, mem, options, linesRead, issued>>

\* app, err := loadApp(stdin, stdout, stderr), which fails when
\* findConfigFile, LoadConfig or NewApp does
LoadAppStep ==
    /\ pc = "loadApp"
    /\ \E outcome \in {"ok", "findConfigFile", "LoadConfig", "NewApp"} :
        IF outcome = "ok"
        THEN /\ mem' = LooseLoad(disk)
             /\ pc' = "parseOptions"
             /\ UNCHANGED <<loc, stderr>>
        ELSE /\ MainFail("loadApp", PlainErr(outcome))
             /\ UNCHANGED mem
    /\ UNCHANGED <<config, now, disk, options, result, log, linesRead, nInv,
                   issued, typed, atStart>>

\* userOpts, err := parseOptions(args); the kind of the current principal
\* is the caller's to give
ParseOptionsStep ==
    /\ pc = "parseOptions"
    /\ \E currentPrincipalIsAssumedRole \in BOOLEAN :
        LET parsed == parseOptionsForceRefresh(loc.args,
                                               currentPrincipalIsAssumedRole)
        IN  IF parsed.err # NoErr
            THEN /\ stderr' = Append(stderr,
                                <<"ERROR: ">> \o parsed.err.text \o <<"\n">>)
                 /\ loc' = [loc EXCEPT
                              !.opts = parsed.opts,
                              !.forceRefresh = parsed.forceRefresh,
                              !.stage = "parseOptions",
                              !.exitCode = <<mainExitCode("parseOptions")>>]
                 /\ pc' = "exited"
            ELSE /\ loc' = [loc EXCEPT !.opts = parsed.opts,
                                       !.forceRefresh = parsed.forceRefresh]
                 /\ pc' = "assumeRole"
                 /\ UNCHANGED stderr
    /\ UNCHANGED <<config, now, disk, mem, options, result, log, linesRead,
                   nInv, issued, typed, atStart>>

\* credentials, err := app.AssumeRole(...): the whole of App.AssumeRole.
\* What follows the cache check is taken as one provider exchange that
\* yields credentials, which are saved, or fails.
CliAssumeRoleFail(err) ==
    /\ result' = [creds |-> <<>>, err |-> err]
    /\ MainFail("AssumeRole", err)

AssumeRoleStep ==
    /\ pc = "assumeRole"
    /\ LET userRole == ArgRole(loc.opts.role)
           key == profileName(config, userRole)
           profile == GetProfile(mem, key)
       IN  IF ~roleARNOk(config, userRole)
           THEN /\ CliAssumeRoleFail(PlainErr("invalid role ARN"))
                /\ UNCHANGED <<disk, mem, log, issued>>
           ELSE \E principalOk \in BOOLEAN :
                /\ IF ~principalOk
                   THEN /\ log' = Append(log, "CurrentPrincipalARN")
                        /\ CliAssumeRoleFail(Errorf(
                               "ERROR while checking IAM principal type: ",
                               OtherAwsErr))
                        /\ UNCHANGED <<disk, mem, issued>>
                   ELSE IF ~needsRefresh(loc.forceRefresh, config, now,
                                         profile.Expires)
                   THEN /\ log' = Append(log, "CurrentPrincipalARN")
                        /\ result' = [creds |-> <<GetCredentials(mem, key)>>,
                                      err |-> NoErr]
                        /\ pc' = "output"
                        /\ UNCHANGED <<disk, mem, issued, loc, stderr>>
                   ELSE \E issuedOk \in BOOLEAN :
                        /\ log' = log \o <<"CurrentPrincipalARN", "AssumeRole">>
                        /\ IF issuedOk
                           THEN LET c == NewCredentials(issued + 1,
                                             now + CredentialsLifetime)
                                    p == [profile EXCEPT
                                            !.RoleARN = requestRoleARN(config,
                                                                       userRole),
                                            !.Expires = c.Expires]
                                    ini == SetCredentials(
                                               SetProfile(mem, key, p), key, c)
                                IN  /\ mem' = ini
                                    /\ disk' = SaveTo(SaveTo(disk, "config", ini),
                                                      "credentials", ini)
                                    /\ issued' = issued + 1
                                    /\ result' = [creds |-> <<c>>, err |-> NoErr]
                                    /\ pc' = "output"
                                    /\ UNCHANGED <<loc, stderr>>
                           ELSE /\ CliAssumeRoleFail(Errorf(WithoutMFAPhrase,
                                                            OtherAwsErr))
                                /\ UNCHANGED <<disk, mem, issued>>
    /\ UNCHANGED <<config, now, options, linesRead, nInv, typed, atStart>>

\* the credentials are printed, or the command is executed with them:
\* execute replaces the process, or exec.LookPath or syscall.Exec fails
OutputStep ==
    /\ pc = "output"
    /\ IF Len(loc.opts.args) = 0
       THEN /\ typed' = credentialsToEnv(result.creds[1])
            /\ MainReturn("printed")
            /\ UNCHANGED stderr
       ELSE \E outcome \in {"replaced", "LookPath", "Exec"} :
            /\ IF outcome = "replaced"
               THEN /\ loc' = [loc EXCEPT !.stage = "replaced"]
                    /\ pc' = "replaced"
                    /\ UNCHANGED stderr
               ELSE /\ stderr' = Append(stderr,
                           <<"ERROR: Could not execute command: ", outcome, "\n">>)
                    /\ MainReturn("execute")
            /\ UNCHANGED typed
    /\ UNCHANGED <<config, now, disk, mem, options, result, log, linesRead,
                   nInv, issued, atStart>>

CliNext ==
    \/ MainStart
    \/ LoadAppStep
    \/ ParseOptionsStep
    \/ AssumeRoleStep
    \/ OutputStep

CliSpec == CliInit /\ [][CliNext]_vars

(***************************************************************************)
(* parseOptions on its own: it is given a list of arguments and the kind   *)
(* of the current principal.  loc holds the arguments and what it returned.*)
(***************************************************************************)
ParseInit ==
    /\ config = setDefaults(MakeConfig(0, <<>>, ""))
    /\ now = StartTime
    /\ disk = EmptyIni
    /\ mem = EmptyIni
    /\ pc = "parse"
    /\ options = [UserRole |-> <<>>, RoleSessionName |-> ""]
    /\ \E args \in ArgLists : loc = [CliLoc EXCEPT !.args = args]
    /\ result = NoResult
    /\ log = <<>>
    /\ stderr = <<>>
    /\ linesRead = 0
    /\ nInv = 0
    /\ issued = 0
    /\ typed = <<>>
    /\ atStart = [disk |-> EmptyIni, profile |-> ZeroProfile]

ParseOptionsCall ==
    /\ pc = "parse"
    /\ \E currentPrincipalIsAssumedRole \in BOOLEAN :
        LET parsed == parseOptions(loc.args, currentPrincipalIsAssumedRole)
        IN  /\ loc' = [loc EXCEPT !.opts = parsed.opts]
            /\ result' = [creds |-> <<>>, err |-> parsed.err]
    /\ pc' = "parsed"
    /\ UNCHANGED <<config, now, disk, mem, options, log, stderr, linesRead,
                   nInv, issued, typed, atStart>>

ParseSpec == ParseInit /\ [][ParseOptionsCall]_vars

(***************************************************************************)
(* The config file search (cli/config.go).  A path is a record: absolute   *)
(* or relative, and the names it is made of; "/" is the absolute path of   *)
(* no names and "" the relative one.                                       *)
(***************************************************************************)
AbsPath(names) == [absolute |-> TRUE, names |-> names]
RelPath(names) == [absolute |-> FALSE, names |-> names]
EmptyPath == RelPath(<<>>)
RootDir == AbsPath(<<>>)

configFile == RelPath(<<"assume-role.yaml">>)
userPath == RelPath(<<".aws">>)
systemPath == AbsPath(<<"etc">>)

\* filepath.Join of a first element and more elements
PathJoin(first, more) ==
    [absolute |-> first.absolute, names |-> first.names \o more.names]

\* filepath.Dir
PathDir(path) ==
    [path EXCEPT !.names = SubSeq(path.names, 1, Len(path.names) - 1)]

\* the working directories of the command, and the user's home
HomeDir == AbsPath(<<"home", "u">>)
WorkingDirs ==
    {RootDir, AbsPath(<<"etc">>), AbsPath(<<"home">>), HomeDir,
     AbsPath(<<"home", "u", ".aws">>), AbsPath(<<"home", "u", "proj">>),
     AbsPath(<<"srv", "app">>)}

\* fileExists: os.Stat does not say the path is missing
fileExists(files, path) == path \in files

\* searchPaths: from basePath upwards to the root
RECURSIVE searchPaths(_)
searchPaths(basePath) ==
    IF basePath = RootDir THEN <<RootDir>>
    ELSE <<basePath>> \o searchPaths(PathDir(basePath))

\* findConfigFile, the loop over searchPaths(wd): the first place that has
\* the file, 0 when none has
FirstLocal(files, paths) ==
    IF \E i \in DOMAIN paths : fileExists(files, PathJoin(paths[i], configFile))
    THEN CHOOSE i \in DOMAIN paths :
            /\ fileExists(files, PathJoin(paths[i], configFile))
            /\ \A j \in 1..(i - 1) :
                  ~fileExists(files, PathJoin(paths[j], configFile))
    ELSE 0

\* findConfigFile past os.Getwd and homedir.Dir: the path returned
findConfigFile(files, wd, home) ==
    LET paths == searchPaths(wd)
        userConfigFile == PathJoin(PathJoin(home, userPath), configFile)
        systemConfigFile == PathJoin(systemPath, configFile)
    IN  IF FirstLocal(files, paths) # 0
        THEN PathJoin(paths[FirstLocal(files, paths)], configFile)
        ELSE IF fileExists(files, userConfigFile) THEN configFile
        ELSE IF fileExists(files, systemConfigFile) THEN systemConfigFile
        ELSE EmptyPath

\* the places a config file can be at, seen from wd
ConfigPlaces(wd) ==
    {PathJoin(searchPaths(wd)[i], configFile) : i \in DOMAIN searchPaths(wd)}
        \cup {PathJoin(PathJoin(HomeDir, userPath), configFile),
              PathJoin(systemPath, configFile)}

\* loc holds the working directory, the files there are, and what
\* findConfigFile returned
FindInit ==
    /\ config = setDefaults(MakeConfig(0, <<>>, ""))
    /\ now = StartTime
    /\ disk = EmptyIni
    /\ mem = EmptyIni
    /\ pc = "find"
    /\ options = [UserRole |-> <<>>, RoleSessionName |-> ""]
    /\ \E wd \in WorkingDirs :
        \E files \in SUBSET ConfigPlaces(wd) :
            loc = [wd |-> wd, files |-> files, path |-> EmptyPath]
    /\ result = NoResult
    /\ log = <<>>
    /\ stderr = <<>>
    /\ linesRead = 0
    /\ nInv = 0
    /\ issued = 0
    /\ typed = <<>>
    /\ atStart = [disk |-> EmptyIni, profile |-> ZeroProfile]

\* findConfigFile: (path, err)
FindConfigFileCall ==
    /\ pc = "find"
    /\ \E outcome \in {"ok", "Getwd", "homedir.Dir"} :
        CASE outcome = "Getwd" ->
               /\ result' = [creds |-> <<>>, err |-> PlainErr("getwd")]
               /\ UNCHANGED loc
          [] outcome = "homedir.Dir"
               /\ FirstLocal(loc.files, searchPaths(loc.wd)) = 0 ->
               /\ result' = [creds |-> <<>>, err |-> PlainErr("homedir")]
               /\ UNCHANGED loc
          [] OTHER ->
               /\ loc' = [loc EXCEPT
                            !.path = findConfigFile(loc.files, loc.wd, HomeDir)]
               /\ UNCHANGED result
    /\ pc' = "found"
    /\ UNCHANGED <<config, now, disk, mem, options, log, stderr, linesRead,
                   nInv, issued, typed, atStart>>

FindSpec == FindInit /\ [][FindConfigFileCall]_vars

(***************************************************************************)
(* Properties.  They speak of one invocation through its call log, what it *)
(* wrote to stderr, the lines it read, and what AssumeRole returned.       *)
(***************************************************************************)
Calls(op) == {i \in DOMAIN log : log[i].op = op}
Called(op) == Calls(op) # {}
Returned == pc = "done"

\* the operations of the AWS provider, and the writes of the store
ProviderOps ==
    {"CurrentPrincipalARN", "Username", "AssumeRole", "MFADevices",
     "AssumeRoleWithMFA"}
StoreWrites == {"SetProfile", "SetCredentials"}

\* the invocation read the profile that the files held when it started
ProfileRead == \E i \in Calls("GetProfile") : log[i].out = "ok"
RefreshInstant == atStart.profile.Expires - config.RefreshBeforeExpiry
Cached == ProfileRead /\ atStart.profile.Expires # ZeroTime
FreshAtStart == Cached /\ now < RefreshInstant
AtBoundary == Cached /\ now = RefreshInstant
PastHorizon == Cached /\ now > RefreshInstant

\* the credentials the files held for the profile when the invocation started
CachedCredentials == GetCredentials(atStart.disk, loc.profileName)

\* C1: an invocation that finds a cached profile with
\* now < expiry - refreshBeforeExpiry returns exactly what the store's
\* GetCredentials returns for the profile key, calls neither AssumeRole nor
\* AssumeRoleWithMFA, and writes nothing to the store.
C1_CacheHitReturnsStored ==
    (Returned /\ FreshAtStart) =>
        /\ ~Called("AssumeRole")
        /\ ~Called("AssumeRoleWithMFA")
        /\ \A i \in DOMAIN log : log[i].op \notin StoreWrites
        /\ disk = atStart.disk
        /\ Called("GetCredentials")
        /\ \A i \in Calls("GetCredentials") :
              IF log[i].out = "ok"
              THEN result = [creds |-> <<CachedCredentials>>, err |-> NoErr]
              ELSE result = [creds |-> <<>>, err |-> StoreIOError]

\* C2: on a cache hit no operation of the AWS provider is called, so the
\* invocation's outcome does not depend on any of them: it can only fail
\* with an error of the store.
C2_CacheHitCallsNoProvider ==
    (Returned /\ FreshAtStart) =>
        /\ \A i \in DOMAIN log : log[i].op \notin ProviderOps
        /\ result.err \in {NoErr, StoreIOError}

\* C3: a cached profile with now = expiry - refreshBeforeExpiry exactly is
\* treated as needing a refresh: the cached credentials are not read, and
\* credentials are returned only after a call of the provider's AssumeRole.
C3_BoundaryRefreshes ==
    (Returned /\ AtBoundary) =>
        /\ ~Called("GetCredentials")
        /\ (result.err = NoErr => Called("AssumeRole"))

NoMFAReturnedCredentials ==
    \E i \in Calls("AssumeRole") : log[i].out = "creds"

\* C5: when the attempt without MFA returns credentials, the invocation
\* never lists MFA devices, writes no prompt to stderr, reads nothing from
\* stdin and never calls AssumeRoleWithMFA.
C5_NoMFAInteraction ==
    NoMFAReturnedCredentials =>
        /\ ~Called("MFADevices")
        /\ ~Called("AssumeRoleWithMFA")
        /\ stderr = <<>>
        /\ typed = <<>>

C5_Witness ==
    /\ NoMFAReturnedCredentials
    /\ Returned
    /\ result.err = NoErr
    /\ result.creds = loc.creds

NoMFADenied == \E i \in Calls("AssumeRole") : log[i].out = "denied"
DevicesListed(n) ==
    \E i \in Calls("MFADevices") :
        log[i].out = "ok" /\ Len(log[i].devices) = n

\* C6: when the MFA path is entered and ListMFADevices returns exactly one
\* device, neither the device list nor the selection prompt is written and
\* no selection is read; only the token prompt is shown, and
\* AssumeRoleWithMFA is called with that device and the token entered.
C6_SingleDeviceNoSelection ==
    (NoMFADenied /\ DevicesListed(1)) =>
        /\ \A k \in DOMAIN stderr :
              /\ stderr[k].index = 0
              /\ stderr[k].text # "Select MFA device: "
        /\ Len(typed) <= 1
        /\ (pc # "mfaToken" =>
              /\ stderr # <<>>
              /\ stderr[1] = Written("Enter MFA token: "))
        /\ (typed # <<>> /\ pc # "withMFA" => Called("AssumeRoleWithMFA"))
        /\ \A j \in Calls("AssumeRoleWithMFA") :
              /\ typed # <<>>
              /\ log[j].token = TrimSpace(typed[1])
              /\ \A i \in Calls("MFADevices") :
                    log[j].device = log[i].devices[1]

C6_Witness ==
    /\ NoMFADenied
    /\ DevicesListed(1)
    /\ Called("AssumeRoleWithMFA")
    /\ Returned

HasCause(err, phrase) ==
    \E k \in DOMAIN err.causes :
        err.causes[k].text # <<>> /\ err.causes[k].text[1] = phrase

\* C7: when the MFA path is entered and ListMFADevices returns zero
\* devices, the invocation has failed: no credentials, one error whose
\* text has both "error trying to AssumeRole without MFA" and
\* "error trying to AssumeRole with MFA", no call of AssumeRoleWithMFA and
\* nothing persisted.
C7_NoDevicesFails ==
    (NoMFADenied /\ DevicesListed(0)) =>
        /\ Returned
        /\ result.creds = <<>>
        /\ result.err.kind = "multi"
        /\ HasCause(result.err, WithoutMFAPhrase)
        /\ HasCause(result.err, WithMFAPhrase)
        /\ ~Called("AssumeRoleWithMFA")
        /\ \A i \in DOMAIN log : log[i].op \notin StoreWrites
        /\ disk = atStart.disk

C7_Witness ==
    /\ NoMFADenied
    /\ DevicesListed(0)
    /\ Returned
    /\ Len(result.err.causes) = 2

NoMFAOtherError == \E i \in Calls("AssumeRole") : log[i].out = "other"

\* C8: when the attempt without MFA fails with an error that is not access
\* denied, AssumeRole returns that same error, unchanged and at once: no
\* MFA device listing, no prompt, no AssumeRoleWithMFA, nothing saved.
C8_OtherErrorReturned ==
    NoMFAOtherError =>
        /\ Returned
        /\ result = [creds |-> <<>>, err |-> OtherAwsErr]
        /\ ~IsAWSAccessDeniedError(result.err)
        /\ ~Called("MFADevices")
        /\ ~Called("AssumeRoleWithMFA")
        /\ stderr = <<>>
        /\ typed = <<>>
        /\ \A i \in DOMAIN log : log[i].op \notin StoreWrites
        /\ disk = atStart.disk

C8_Witness ==
    /\ NoMFAOtherError
    /\ Returned
    /\ result.err = OtherAwsErr

WithMFAFailed ==
    \E j \in Calls("AssumeRoleWithMFA") : log[j].out # "creds"

\* C9: when the attempt without MFA is denied and the attempt with MFA
\* fails too, the error returned has exactly two causes in order: first
\* the one of the attempt without MFA, then the one of the attempt with
\* MFA (ending in "; giving up"); the earlier cause is kept as collected.
C9_TwoCausesInOrder ==
    (NoMFADenied /\ WithMFAFailed) =>
        /\ Returned
        /\ result.creds = <<>>
        /\ result.err.kind = "multi"
        /\ Len(result.err.causes) = 2
        /\ result.err.causes[1] = Errorf(WithoutMFAPhrase, AccessDenied)
        /\ \E j \in Calls("AssumeRoleWithMFA") :
              result.err.causes[2] =
                 ErrorfSuffix(WithMFAPhrase,
                              IF log[j].out = "denied" THEN AccessDenied
                              ELSE OtherAwsErr,
                              "; giving up")

C9_Witness ==
    /\ NoMFADenied
    /\ WithMFAFailed
    /\ Returned
    /\ Len(result.err.causes) = 2

\* the session name by the documented precedence: the explicit override,
\* else the name stored in the profile, else the caller's username
DocumentedSessionName ==
    IF options.RoleSessionName # "" THEN options.RoleSessionName
    ELSE IF atStart.profile.RoleSessionName # ""
         THEN atStart.profile.RoleSessionName
    ELSE UserName

\* C10: the session name passed to the provider is the explicit override if
\* it is not empty, else the stored profile's name if not empty, else the
\* caller's username.
C10_SessionNamePrecedence ==
    \A i \in DOMAIN log :
        log[i].op \in {"AssumeRole", "AssumeRoleWithMFA"} =>
            log[i].session = DocumentedSessionName

\* the running invocation got no override and found a session name stored
StoredNameNoOverride ==
    /\ ProfileRead
    /\ options.RoleSessionName = ""
    /\ atStart.profile.RoleSessionName # ""

\* C11: in a refresh without override of a profile that has a session name
\* stored, every provider call uses the stored name, the username is not
\* looked up, and the name in the store stays what it was; so along any
\* sequence of such refreshes the name first persisted is the one used.
C11_StoredSessionNameReused ==
    StoredNameNoOverride =>
        /\ \A i \in DOMAIN log :
              log[i].op \in {"AssumeRole", "AssumeRoleWithMFA"} =>
                  log[i].session = atStart.profile.RoleSessionName
        /\ ~Called("Username")
        /\ GetProfile(disk, loc.profileName).RoleSessionName =
              atStart.profile.RoleSessionName

C11_Witness ==
    /\ StoredNameNoOverride
    /\ Called("AssumeRole")
    /\ Returned
    /\ result.err = NoErr
    /\ \E i \in Calls("SetProfile") : log[i].out = "ok"

\* the cached expiry, as the invocation read it, calls for a refresh
NeedsRefresh == ProfileRead /\ now > RefreshInstant

\* the invocation found the caller to be an assumed role
PrincipalIsAssumedRole ==
    /\ \E i \in Calls("CurrentPrincipalARN") : log[i].out = "ok"
    /\ loc.currentPrincipalIsAssumedRole

\* C12: when a refresh is needed, no override is passed, the cached profile
\* has no session name and the caller is an assumed role, AssumeRole has
\* failed with the missing-session-name validation error without a call of
\* AssumeRole, AssumeRoleWithMFA, MFADevices or Username, and nothing was
\* persisted.
C12_AssumedRoleNeedsSessionName ==
    ( /\ NeedsRefresh
      /\ options.RoleSessionName = ""
      /\ atStart.profile.RoleSessionName = ""
      /\ PrincipalIsAssumedRole ) =>
        /\ Returned
        /\ result = [creds |-> <<>>, err |-> errAssumedRoleNeedsSessionName]
        /\ \A i \in DOMAIN log :
              log[i].op \notin {"AssumeRole", "AssumeRoleWithMFA",
                                "MFADevices", "Username"} \cup StoreWrites
        /\ disk = atStart.disk

C12_Witness ==
    /\ NeedsRefresh
    /\ PrincipalIsAssumedRole
    /\ Returned
    /\ result.err = errAssumedRoleNeedsSessionName

\* C13: when the attempt without MFA is access-denied and the caller is an
\* assumed role, AssumeRole has failed with the aggregated error that holds
\* the without-MFA cause; MFADevices is not called, nothing is written to
\* stderr or read from stdin, and AssumeRoleWithMFA is not called.
C13_MFAGate ==
    (NoMFADenied /\ PrincipalIsAssumedRole) =>
        /\ Returned
        /\ result.creds = <<>>
        /\ result.err.kind = "multi"
        /\ result.err.causes = <<Errorf(WithoutMFAPhrase, AccessDenied)>>
        /\ HasCause(result.err, WithoutMFAPhrase)
        /\ ~Called("MFADevices")
        /\ ~Called("AssumeRoleWithMFA")
        /\ stderr = <<>>
        /\ typed = <<>>
        /\ \A i \in DOMAIN log : log[i].op \notin StoreWrites

C13_Witness ==
    /\ NoMFADenied
    /\ PrincipalIsAssumedRole
    /\ Returned
    /\ Len(result.err.causes) = 1

\* the invocation returned credentials that the provider issued in it
ReturnedFresh ==
    /\ Returned
    /\ result.err = NoErr
    /\ result.creds # <<>>
    /\ \E i \in DOMAIN log :
          /\ log[i].op \in {"AssumeRole", "AssumeRoleWithMFA"}
          /\ log[i].out = "creds"

\* C14: after a run that returns freshly obtained credentials c for key k,
\* the files satisfy GetProfile(k).Expires = c.Expires and
\* GetCredentials(k).Expires = c.Expires.
C14_StoredExpiryIsIssued ==
    ReturnedFresh =>
        /\ GetProfile(disk, loc.profileName).Expires = result.creds[1].Expires
        /\ GetCredentials(disk, loc.profileName).Expires
              = result.creds[1].Expires

\* the role identifier App.roleARN resolves the invocation's token to, the
\* one the profile key is derived from
ResolvedRole == roleARN(config, options.UserRole)

\* C15: the role identifier passed to the provider and persisted in the
\* profile is the resolved one: the token itself when it is a valid
\* identifier, else prefix + token; the same the profile key comes from.
C15_ResolvedRoleUsed ==
    /\ \A i \in DOMAIN log :
          log[i].op \in {"AssumeRole", "AssumeRoleWithMFA"} =>
              /\ log[i].role = ResolvedRole
              /\ isValidARN(log[i].role)
    /\ (\E i \in Calls("SetProfile") : log[i].out = "ok") =>
          GetProfile(disk, loc.profileName).RoleARN = ResolvedRole

StoreOps == {"GetProfile", "GetCredentials"} \cup StoreWrites

\* the key by its description: the configured profile-name prefix if not
\* empty, else the account id of the resolved role; "-"; the basename of
\* the role's resource path
DescribedKey ==
    << IF config.ProfileNamePrefix # "" THEN config.ProfileNamePrefix
       ELSE ArnAccountID(ResolvedRole),
       "-",
       PathBase(ArnResource(ResolvedRole)) >>

\* C16: every store read and write of an invocation addresses the described
\* key, a function of the role token and the configuration alone: here
\* "foobar-testRole" under the prefix "foobar", else "123-testRole".
C16_ProfileKey ==
    \A i \in DOMAIN log :
        log[i].op \in StoreOps =>
            /\ log[i].key = DescribedKey
            /\ log[i].key = IF config.ProfileNamePrefix = "foobar"
                            THEN <<"foobar", "-", "testRole">>
                            ELSE <<"123", "-", "testRole">>

C16_Witness ==
    /\ Returned
    /\ config.ProfileNamePrefix # ""
    /\ options.UserRole # FullRoleA
    /\ nInv = MaxInvocations
    /\ \E i \in Calls("SetCredentials") : log[i].out = "ok"
    /\ atStart.disk # EmptyIni

(***************************************************************************)
(* Properties of the store on its own (StoreSpec).                         *)
(***************************************************************************)
\* call j directly follows call i, on the same key
Follows(i, j, opI, opJ) ==
    /\ j = i + 1
    /\ j \in DOMAIN log
    /\ log[i].op = opI
    /\ log[j].op = opJ
    /\ log[j].key = log[i].key

\* C17: SetProfile(k, p) followed by GetProfile(k) returns a profile equal
\* to p in all five fields, the expiry being the same instant as p's, for
\* every expiry instant, not only those on a whole second.
C17_ProfileRoundTrip ==
    \A i \in DOMAIN log :
        Follows(i, i + 1, "SetProfile", "GetProfile") =>
            /\ log[i + 1].err = NoErr
            /\ log[i + 1].ret = log[i].arg

\* C18: SetCredentials(k, c) followed by GetCredentials(k), with no call of
\* SetProfile, returns credentials equal to c in access key id, secret key,
\* session token and expiry.
C18_CredentialsRoundTrip ==
    \A i \in DOMAIN log :
        ( /\ Follows(i, i + 1, "SetCredentials", "GetCredentials")
          /\ \A h \in 1..i : log[h].op # "SetProfile" ) =>
            /\ log[i + 1].err = NoErr
            /\ log[i + 1].ret = log[i].arg

\* C19: GetCredentials(k).Expires is always GetProfile(k).Expires, so after
\* SetCredentials(k, c) followed by SetProfile(k, p) with another expiry,
\* GetCredentials(k) returns c's keys and token with the expiry p.Expires.
C19_ExpiryFromProfile ==
    /\ \A k \in ProfileKeys :
          GetCredentials(mem, k).Expires = GetProfile(mem, k).Expires
    /\ \A i \in DOMAIN log :
          ( /\ Follows(i, i + 1, "SetCredentials", "SetProfile")
            /\ Follows(i + 1, i + 2, "SetProfile", "GetCredentials")
            /\ log[i + 1].arg[1].Expires # log[i].arg[1].Expires ) =>
              log[i + 2].ret =
                 << [log[i].arg[1] EXCEPT
                        !.Expires = log[i + 1].arg[1].Expires] >>

(***************************************************************************)
(* Properties of invocations again (Spec).                                 *)
(***************************************************************************)
\* the files held no section for the invocation's key when it started
SectionMissing ==
    /\ ProfileRead
    /\ ~atStart.disk.config[loc.profileName].present

\* C20: GetProfile for a key without a section gives the zero-valued
\* profile, and AssumeRole treats a zero-valued expiry as never assumed: it
\* never reads the cached credentials, goes on to the refresh, and
\* credentials it returns are freshly issued ones.
C20_MissingProfileRefreshes ==
    /\ \A k \in ProfileKeys :
          ~disk.config[k].present => GetProfile(disk, k) = ZeroProfile
    /\ SectionMissing => atStart.profile = ZeroProfile
    /\ (ProfileRead /\ atStart.profile.Expires = ZeroTime) =>
          /\ credentialsExpired(config, now, atStart.profile.Expires)
          /\ ~Called("GetCredentials")
          /\ (Returned /\ result.err = NoErr) => ReturnedFresh
          /\ (pc = "done" /\ \E i \in Calls("CurrentPrincipalARN") :
                                 log[i].out = "ok") =>
                \/ Called("AssumeRole")
                \/ Called("Username")
                \/ result.err = errAssumedRoleNeedsSessionName

C20_Witness ==
    /\ SectionMissing
    /\ ReturnedFresh
    /\ GetProfile(disk, loc.profileName) # ZeroProfile

(***************************************************************************)
(* Properties of two invocations at once (RaceSpec).                       *)
(***************************************************************************)
AllDone == \A w \in Writers : pc[w] = "done"
WritesTo(name) == {i \in DOMAIN log : log[i].file = name}
\* the write to the file that completed last
LastWrite(name) ==
    log[CHOOSE i \in WritesTo(name) : \A j \in WritesTo(name) : j <= i]

\* the section of the key as process w alone writes it, from its own
\* profile and credentials
OwnSection(w, name) ==
    SetCredentials(SetProfile(EmptyIni, RaceKey, loc[w].profile),
                   RaceKey, loc[w].creds[1])[name][RaceKey]

\* C21: when both invocations have finished, each backing file holds for
\* the key exactly what the write to that file that completed last wrote,
\* and that is the section of one writer: values of the two writers are
\* not mixed within a file.
C21_LastWriteWins ==
    AllDone =>
        \A name \in {"config", "credentials"} :
            WritesTo(name) # {} =>
                /\ disk[name][RaceKey] = LastWrite(name).content[RaceKey]
                /\ disk[name][RaceKey]
                      = OwnSection(LastWrite(name).writer, name)

\* both invocations wrote, and the two files end up from different writers
C21_Witness ==
    /\ AllDone
    /\ \A w \in Writers : \E i \in DOMAIN log : log[i].writer = w
    /\ LastWrite("config").writer # LastWrite("credentials").writer

(***************************************************************************)
(* Properties of the files over successive invocations (StoreSpec).        *)
(***************************************************************************)
SectionsOf(files, name) == {k \in ProfileKeys : files[name][k].present}

\* C22: the profile keys present in the profile file and in the
\* credentials file only grow: whatever the store does, within an invocation
\* or in a later one, both files keep every key they had.
C22_KeysNeverDeleted ==
    [][\A name \in {"config", "credentials"} :
          SectionsOf(disk, name) \subseteq SectionsOf(disk', name)]_vars

\* an invocation wrote one key to both files, and a later invocation, which
\* loaded them, added another
C22_Witness ==
    /\ Len(log) = 3
    /\ log[1].op = "SetCredentials" /\ log[1].err = NoErr
    /\ log[2].op = "NewAWSConfig"
    /\ log[3].op = "SetCredentials" /\ log[3].err = NoErr
    /\ log[3].key # log[1].key
    /\ \A name \in {"config", "credentials"} :
          SectionsOf(disk, name) = {log[1].key, log[3].key}

(***************************************************************************)
(* Properties of the device selection (SelectSpec).                        *)
(***************************************************************************)
\* the line is the number of one of the devices listed, 1 to deviceCount
Selects(line, devices) ==
    LET t == TrimSpace(line)
        digits == StripZeros(IF t[1] = "+" THEN Tail(t) ELSE t)
    IN  /\ Numeral(t)
        /\ t[1] # "-"
        /\ Len(digits) = 1
        /\ DigitValue(digits[1]) \in 1..Len(devices)

\* what the selection is said to answer to a line that selects no device
InvalidInputMessage(line) ==
    IF Numeral(TrimSpace(line))
    THEN Written("Invalid input (not in range)\n")
    ELSE Written("Invalid input (not a number)\n")

\* the numbered list and the prompt once per line typed, each line that
\* selects no device answered by its message
RECURSIVE SelectionOutput(_, _)
SelectionOutput(lines, devices) ==
    IF lines = <<>> THEN <<>>
    ELSE DevicePrompt(devices)
            \o (IF Selects(Head(lines), devices) THEN <<>>
                ELSE <<InvalidInputMessage(Head(lines))>>)
            \o SelectionOutput(Tail(lines), devices)

TokenPromptShown ==
    \E i \in DOMAIN stderr : stderr[i] = Written("Enter MFA token: ")

\* C23: in the selection among several devices every line that is not a
\* number is answered "Invalid input (not a number)" and every number
\* outside 1..deviceCount "Invalid input (not in range)", the numbered list
\* and "Select MFA device: " shown before each line is read; the token
\* prompt is shown only after a line that selects a device.
C23_InvalidInputMessages ==
    /\ pc \in {"prompt", "mfaToken"} =>
          stderr = SelectionOutput(typed, loc.devices)
    /\ pc = "mfaToken" => Selects(typed[Len(typed)], loc.devices)
    /\ TokenPromptShown =>
          \E j \in DOMAIN typed : Selects(typed[j], loc.devices)

(***************************************************************************)
(* Properties of the command line (CliSpec).                               *)
(***************************************************************************)
CouldNotExecute ==
    /\ stderr # <<>>
    /\ stderr[Len(stderr)][1] = "ERROR: Could not execute command: "

CredentialsPrinted ==
    /\ result.err = NoErr
    /\ result.creds # <<>>
    /\ typed = credentialsToEnv(result.creds[1])

GivenRoleOk == roleARNOk(config, ArgRole(loc.opts.role))
GivenKey == profileName(config, ArgRole(loc.opts.role))
CachedFresh ==
    /\ GivenRoleOk
    /\ GetProfile(atStart.disk, GivenKey).Expires # ZeroTime
    /\ now < GetProfile(atStart.disk, GivenKey).Expires
                 - config.RefreshBeforeExpiry
AssumeRoleReturned ==
    \/ pc \in {"output", "replaced"}
    \/ pc = "exited" /\ loc.stage \in {"AssumeRole", "printed", "execute"}
ForceRefreshGiven ==
    Len(loc.args) > 0 /\ loc.args[1] \in ForceRefreshOptions
NoForceRefreshGiven ==
    \A i \in DOMAIN loc.args : loc.args[i] \notin ForceRefreshOptions
IdentityLookupFailed == log = <<"CurrentPrincipalARN">> /\ result.err # NoErr

OptionNames == {"--role", "--role-session-name"}

\* The options come in pairs, name and value, from the first argument on:
\* position i holds an option name when i is odd and every odd position
\* before it holds one.
OptionAt(args, i) ==
    /\ i \in DOMAIN args
    /\ i % 2 = 1
    /\ \A j \in 1..i : j % 2 = 1 => args[j] \in OptionNames

\* where parsing stops: the first argument that is no option name and no
\* option's value (0 when there is none)
StopsAt(args) ==
    IF \E i \in DOMAIN args : i % 2 = 1 /\ args[i] \notin OptionNames
    THEN CHOOSE i \in DOMAIN args :
            /\ i % 2 = 1 /\ args[i] \notin OptionNames
            /\ \A j \in 1..(i - 1) : j % 2 = 1 => args[j] \in OptionNames
    ELSE 0

CommandGiven(args) ==
    LET stop == StopsAt(args)
    IN  IF stop = 0 THEN <<>>
        ELSE IF args[stop] = "--" THEN SubSeq(args, stop + 1, Len(args))
        ELSE SubSeq(args, stop, Len(args))

\* the value the i-th argument, an option name, is given
ValueOf(args, i) == IF i + 1 \in DOMAIN args THEN args[i + 1] ELSE ""

RolePositions(args) == {i \in DOMAIN args : OptionAt(args, i) /\ args[i] = "--role"}

\* some --role before the stop was given a value that is not empty
SomeRoleGiven(args) == \E i \in RolePositions(args) : ValueOf(args, i) # ""

\* the value of the last --role before the stop, "" when there is none
LastRoleGiven(args) ==
    IF RolePositions(args) = {} THEN ""
    ELSE ValueOf(args, CHOOSE i \in RolePositions(args) :
                          \A j \in RolePositions(args) : j <= i)

Parsed == pc = "parsed"

ConfigFileToUse(files, wd) ==
    LET local == {i \in DOMAIN searchPaths(wd) :
                     PathJoin(searchPaths(wd)[i], configFile) \in files}
        user == AbsPath(HomeDir.names \o <<".aws", "assume-role.yaml">>)
        system == AbsPath(<<"etc", "assume-role.yaml">>)
    IN  IF local # {}
        THEN PathJoin(searchPaths(wd)[CHOOSE i \in local :
                                         \A j \in local : i <= j], configFile)
        ELSE IF user \in files THEN user
        ELSE IF system \in files THEN system
        ELSE EmptyPath

\* C27: findConfigFile returns the path of the file to use, the nearest
\* assume-role.yaml of the working directory and its ancestors first, then
\* the one in ~/.aws, then the one in /etc: the path of a file that exists,
\* and the empty string when there is none.
C27_ConfigFilePrecedence ==
    (pc = "found" /\ result.err = NoErr) =>
        /\ loc.path = ConfigFileToUse(loc.files, loc.wd)
        /\ loc.path # EmptyPath => loc.path \in loc.files

(***************************************************************************)
(* Properties of the device selection within an invocation (Spec).         *)
(***************************************************************************)
\* the number a line that selects a device stands for
NumberTyped(line) ==
    LET t == TrimSpace(line)
    IN  DigitValue(StripZeros(IF t[1] = "+" THEN Tail(t) ELSE t)[1])

SeveralDevicesListed ==
    \E i \in DOMAIN log :
        log[i].op = "MFADevices" /\ log[i].out = "ok" /\ Len(log[i].devices) > 1

ListedDevices ==
    log[CHOOSE i \in DOMAIN log : log[i].op = "MFADevices"].devices

\* C28: among several devices a line n with 1 <= n <= deviceCount ends the
\* selection, and AssumeRoleWithMFA is called with the n-th device of the
\* list MFADevices returned (position n-1, counting from 0) and with the
\* line typed next, the spaces around it removed, as the token.
C28_SelectedDeviceAndToken ==
    SeveralDevicesListed =>
        /\ pc = "prompt" =>
              \A k \in DOMAIN typed : ~Selects(typed[k], ListedDevices)
        /\ \A i \in DOMAIN log :
              log[i].op = "AssumeRoleWithMFA" =>
                  /\ Len(typed) >= 2
                  /\ Selects(typed[Len(typed) - 1], ListedDevices)
                  /\ log[i].device
                        = ListedDevices[NumberTyped(typed[Len(typed) - 1])]
                  /\ log[i].token = TrimSpace(typed[Len(typed)])

\* the second of two devices was selected after an invalid line, and the
\* token was typed with spaces around it
C28_Witness ==
    /\ SeveralDevicesListed
    /\ Called("AssumeRoleWithMFA")
    /\ Len(typed) = 3
    /\ ~Selects(typed[1], ListedDevices)
    /\ NumberTyped(typed[2]) = 2
    /\ typed[3] # TrimSpace(typed[3])

(***************************************************************************)
(* Properties of the device selection again (SelectSpec).                  *)
(***************************************************************************)
LineRead == typed' # typed
InSelection == pc = "prompt"

\* C29: a line that selects no device never ends the selection and never
\* makes an error: after it, however many came before, the selection goes
\* on and nothing was returned; the list and the prompt were shown before
\* it and are shown again in the next pass.  The selection ends on a line
\* that selects a device; without one it ends only when no line can be read.
C29_InvalidInputRetries ==
    [][InSelection =>
          /\ (LineRead /\ ~Selects(typed'[Len(typed')], loc.devices)) =>
                /\ pc' = "prompt"
                /\ result' = result
                /\ loc' = loc
          /\ (LineRead /\ Selects(typed'[Len(typed')], loc.devices)) =>
                pc' = "mfaToken" /\ result' = result
          /\ (pc' = "done" /\ result'.err # NoErr) => ~LineRead
          /\ SubSeq(stderr', Len(stderr) + 1,
                    Len(stderr) + Len(loc.devices) + 1)
                = DevicePrompt(loc.devices)]_vars

\* MaxInputLines lines that select nothing were typed, the selection goes on
C29_Witness ==
    /\ InSelection
    /\ Len(typed) >= 2
    /\ \A k \in DOMAIN typed : ~Selects(typed[k], loc.devices)
    /\ result = NoResult

(***************************************************************************)
(* Properties of the MFA attempt within an invocation (Spec).              *)
(***************************************************************************)
MFASucceeded ==
    /\ pc = "done"
    /\ result.err = NoErr
    /\ \E i \in DOMAIN log :
          log[i].op = "AssumeRoleWithMFA" /\ log[i].out = "creds"

MFACall == log[CHOOSE i \in DOMAIN log : log[i].op = "AssumeRoleWithMFA"]

\* C30: after an invocation that succeeded through AssumeRoleWithMFA the
\* profile the files hold for the key has the MFA device of that call, the
\* expiry of the credentials it returned, and the role identifier and the
\* session name it was called with; and the credentials AssumeRole returned
\* are those AssumeRoleWithMFA returned.
C30_MFAProfilePersisted ==
    MFASucceeded =>
        /\ GetProfile(disk, loc.profileName).MFASerial = MFACall.device
        /\ GetProfile(disk, loc.profileName).MFASerial = loc.mfaDeviceARN
        /\ GetProfile(disk, loc.profileName).Expires = result.creds[1].Expires
        /\ GetProfile(disk, loc.profileName).RoleARN = MFACall.role
        /\ GetProfile(disk, loc.profileName).RoleSessionName = MFACall.session
        /\ result.creds
              = <<NewCredentials(issued, now + CredentialsLifetime)>>
        /\ result.creds = loc.creds

(***************************************************************************)
(* Properties of persistence within an invocation (Spec).                  *)
(***************************************************************************)
\* the invocation obtained credentials and both writes of app.save succeeded
Persisted ==
    /\ Returned
    /\ \E j \in Calls("SetCredentials") : log[j].out = "ok"

\* C31: in every invocation each SetCredentials call directly follows a
\* SetProfile call on the same key that returned no error, nothing is called
\* after a SetProfile that failed, and between the two calls the config file
\* already holds the new profile while the credentials file is as it was at
\* the start; a successful refresh ends with SetProfile then SetCredentials.
C31_ProfileBeforeCredentials ==
    /\ \A j \in Calls("SetCredentials") :
          /\ j > 1
          /\ log[j - 1].op = "SetProfile"
          /\ log[j - 1].out = "ok"
          /\ log[j - 1].key = log[j].key
    /\ \A i \in Calls("SetProfile") :
          log[i].out = "error" =>
              /\ i = Len(log)
              /\ Returned
              /\ result = [creds |-> <<>>, err |-> StoreIOError]
    /\ pc = "setCredentials" =>
          /\ log[Len(log)].op = "SetProfile"
          /\ disk.config[loc.profileName]
                = SetProfile(EmptyIni, loc.profileName,
                             loc.profile).config[loc.profileName]
          /\ disk.credentials = atStart.disk.credentials
    /\ ReturnedFresh =>
          /\ Len(log) >= 2
          /\ log[Len(log) - 1].op = "SetProfile"
          /\ log[Len(log)].op = "SetCredentials"
          /\ log[Len(log)].out = "ok"

C31_Witness ==
    /\ ReturnedFresh
    /\ Persisted
    /\ nInv = 2
    /\ disk.credentials # atStart.disk.credentials

\* the profile write succeeded and SetCredentials then failed, at its save of
\* the config file or at its save of the credentials file
PartlyPersisted ==
    /\ Returned
    /\ log # <<>>
    /\ log[Len(log)].op = "SetCredentials"
    /\ log[Len(log)].out # "ok"

\* C32: when SetProfile succeeded and SetCredentials then failed, AssumeRole
\* returns the store error and no credentials; the config file holds the
\* profile with the expiry of the credentials just issued, which is not the
\* expiry it held at the start, and the credentials file is what it was at
\* the start, without the credentials just issued.
C32_NoRollback ==
    PartlyPersisted =>
        /\ result = [creds |-> <<>>, err |-> StoreIOError]
        /\ log[Len(log) - 1].op = "SetProfile"
        /\ log[Len(log) - 1].out = "ok"
        /\ disk.config[loc.profileName].expiration
              = FormatRFC3339(loc.creds[1].Expires)
        /\ GetProfile(disk, loc.profileName).Expires # atStart.profile.Expires
        /\ disk.config # atStart.disk.config
        /\ disk.credentials = atStart.disk.credentials
        /\ GetCredentials(disk, loc.profileName).AccessKeyID
              # loc.creds[1].AccessKeyID

C32_Witness ==
    /\ PartlyPersisted
    /\ log[Len(log)].out = "credentials-error"
    /\ nInv = 2
    /\ atStart.disk.credentials[loc.profileName].present

(***************************************************************************)
(* Properties of the order of the provider calls in an invocation (Spec).  *)
(***************************************************************************)
\* the calls and positions of AssumeRole that belong to the MFA attempt
MFAOps == {"MFADevices", "AssumeRoleWithMFA"}
InMFAPath == pc \in {"mfaDevices", "prompt", "mfaToken", "withMFA"}

\* the invocation made exactly one AssumeRole call, before call j, and the
\* provider answered it with access denied
OneDeniedAssumeRoleBefore(j) ==
    /\ Cardinality(Calls("AssumeRole")) = 1
    /\ \A i \in Calls("AssumeRole") : i < j /\ log[i].out = "denied"

CredentialsObtained == \E i \in DOMAIN log : log[i].out = "creds"

\* AssumeRole returned an error raised before app.save was reached
FailedBeforeSave ==
    /\ Returned
    /\ result.err # NoErr
    /\ ~CredentialsObtained

\* C34: an invocation that ends in an error without having obtained
\* credentials called neither SetProfile nor SetCredentials and left both
\* files as they were when it started; app.save is reached only with
\* credentials in hand, and the files differ from those at the start only
\* after a SetProfile call that succeeded.
C34_FrameOnFailure ==
    /\ FailedBeforeSave =>
          /\ \A i \in DOMAIN log : log[i].op \notin StoreWrites
          /\ disk = atStart.disk
          /\ result.creds = <<>>
    /\ pc \in {"setProfile", "setCredentials"} =>
          /\ loc.creds # <<>>
          /\ CredentialsObtained
    /\ disk # atStart.disk =>
          \E i \in Calls("SetProfile") : log[i].out = "ok"

C34_Witness ==
    /\ FailedBeforeSave
    /\ Called("AssumeRoleWithMFA")
    /\ atStart.disk # EmptyIni
    /\ disk = atStart.disk

(***************************************************************************)
(* Properties of the cache over several invocations (Spec).                *)
(***************************************************************************)
\* AssumeRole returned what GetCredentials gave it for a fresh profile
CacheHitReturned ==
    /\ Returned
    /\ result.err = NoErr
    /\ log # <<>>
    /\ log[Len(log)].op = "GetCredentials"
    /\ log[Len(log)].out = "ok"

\* C35: an invocation that returns through the cache-hit path returns the
\* credentials the provider issued in the refresh that wrote the expiry it
\* found fresh.  A refresh is attempted only when the stored expiry is no
\* longer fresh, and one whose SetProfile failed leaves it so; hence the
\* expiry found fresh was written by the latest refresh, the one that was
\* issued the credentials numbered "issued".
C35_CacheHitReturnsIssued ==
    CacheHitReturned =>
        result.creds = <<NewCredentials(issued, atStart.profile.Expires)>>

(***************************************************************************)
(* Properties of what two invocations at once leave together (RaceSpec).   *)
(***************************************************************************)
\* both invocations obtained credentials and saved them
BothRefreshed ==
    /\ AllDone
    /\ \A w \in Writers :
          \E i \in WritesTo("credentials") : log[i].writer = w

\* the files hold for the key the expiry and the credentials issued to w
FromResponseOf(w) ==
    /\ disk.config[RaceKey].expiration
          = FormatRFC3339(WriterCredentials(w).Expires)
    /\ GetCredentials(disk, RaceKey)
          = [WriterCredentials(w) EXCEPT
                !.Expires = GetProfile(disk, RaceKey).Expires]

\* C36: when two invocations at once have both refreshed the same key and
\* finished, the expiry in the config file and the credentials in the
\* credentials file are those of one provider response, whatever the order
\* in which their file writes completed.
C36_SameResponse ==
    BothRefreshed => \E w \in Writers : FromResponseOf(w)

(***************************************************************************)
(* Properties of two invocations at once on two keys (KeysSpec).           *)
(***************************************************************************)
\* the files hold the sections of w's key with what w stored under it
SectionsKept(w) ==
    /\ disk.config[WriterKey(w)].present
    /\ disk.credentials[WriterKey(w)].present
    /\ GetProfile(disk, WriterKey(w)).Expires
          = ParseRFC3339(FormatRFC3339(WriterCredentials(w).Expires))
    /\ GetCredentials(disk, WriterKey(w)).AccessKeyID
          = WriterCredentials(w).AccessKeyID

\* C37: when two invocations at once, each refreshing a key of its own, have
\* both saved and finished, the config file and the credentials file hold
\* the sections of both keys, whatever the order of their loads and writes.
C37_BothKeysKept ==
    (WriterKey(1) # WriterKey(2) /\ BothRefreshed) =>
        \A w \in Writers : SectionsKept(w)

(***************************************************************************)
(* Termination of an invocation (LiveSpec).                                *)
(***************************************************************************)
Running == pc \notin {"idle", "done"}

\* the selection among several devices ended without a device chosen
SelectionGivenUp ==
    /\ Returned
    /\ log # <<>>
    /\ log[Len(log)].op = "MFADevices"
    /\ log[Len(log)].out = "ok"
    /\ Len(log[Len(log)].devices) > 1
    /\ loc.mfaDeviceARN = ""

\* C38: every invocation that has started returns; each pass of the
\* device-selection loop that ends in another pass has read one more input
\* line; and a selection that ends without a device ends AssumeRole with no
\* credentials and an error of two causes, the access-denied answer to the
\* attempt without MFA followed by the failure to read the device option.
C38_Terminates ==
    /\ Running ~> Returned
    /\ [][(pc = "prompt" /\ pc' = "prompt") =>
            /\ linesRead' = linesRead + 1
            /\ Len(typed') = Len(typed) + 1
            /\ linesRead' <= MaxInputLines]_vars
    /\ [](SelectionGivenUp =>
            /\ result.creds = <<>>
            /\ result.err.kind = "multi"
            /\ result.err.causes =
                  << Errorf(WithoutMFAPhrase, AccessDenied),
                     Errorf(WithMFAPhrase,
                        Errorf("unable to read MFA device option from stdin: ",
                               IoEOF)) >>)

\* the input ended after MaxInputLines lines, none of them a valid selection
C38_Witness ==
    /\ SelectionGivenUp
    /\ Len(typed) = MaxInputLines
    /\ linesRead = MaxInputLines

(***************************************************************************)
(* Properties of DeferredFuncs (DeferredSpec, DeferredLive).               *)
(***************************************************************************)
IsPrefix(a, b) == Len(a) <= Len(b) /\ SubSeq(b, 1, Len(a)) = a
NoneTwice(a) == \A i, j \in DOMAIN a : a[i] = a[j] => i = j
RunDone == pc[1] = "done"
RegistrarsDone == \A g \in Registrars : pc[g] = "done"

\* C39: when Run has returned, the functions it called begin with those
\* registered before Run was called, in the order in which New and the
\* Register calls completed, each function called once; and the Register
\* calls of several goroutines lose nothing: once they have returned,
\* d.funcs holds the function of New and then theirs, in that order.
C39_RunInOrderNoneLost ==
    /\ RunDone =>
          /\ IsPrefix(loc[1].before, log)
          /\ IsPrefix(log, issued)
          /\ NoneTwice(log)
    /\ IsPrefix(log, issued)
    /\ RegistrarsDone =>
          /\ mem.funcs = issued
          /\ \A g \in Registrars :
                \E k \in DOMAIN mem.funcs : <<mem.funcs[k]>> = RegisterArgs(g)
          /\ NoneTwice(mem.funcs)

\* a Register call completed before Run was called, another after Run took
\* its read lock
C39_Witness ==
    /\ RunDone
    /\ RegistrarsDone
    /\ Len(loc[1].before) = 2
    /\ Len(log) = 2
    /\ Len(mem.funcs) = 3

\* C40: a call of Run returns, also when one of the registered functions
\* calls Register on the same DeferredFuncs while Run is calling it.
C40_RunTerminates ==
    (pc[1] = "RLock") ~> RunDone

====
